---- MODULE Spec2Model ----
(***************************************************************************)
(* Garbage collection of applied resources on the managed cluster:         *)
(* helper.DeleteAppliedResources (pkg/spoke/helper/helper.go) run against  *)
(* an API server on which other actors change the same objects.            *)
(*                                                                         *)
(* One action per API call of the pass (Get, ValidateDelete, Patch,        *)
(* Delete); the code that runs between two calls belongs to the action of  *)
(* the earlier call.  Every call is appended to `calls` together with the  *)
(* object the API server held when it served the call.                     *)
(***************************************************************************)
EXTENDS Integers, Sequences, FiniteSets, TLC

\* ------------------------------------------------------------------ bounds
\* longest owner list an object carries
MaxOwners == 2
\* number of changes other actors make to the cluster during one pass
MaxEnvSteps == 1

\* ------------------------------------------------------------ pass inputs
\* owner passed to DeleteAppliedResources; a UID is a sequence of characters
owner == [name |-> "n1", uid |-> <<"a">>]
\* owners other than the agent's
ownerB == [name |-> "n2", uid |-> <<"b">>]
ownerC == [name |-> "n3", uid |-> <<"c">>]
otherOwners == {ownerB, ownerC}
\* Owner references of one object name distinct owners: no two entries share
\* a name or a UID.
AllOwners == {owner} \cup otherOwners

\* resourcesToRemove of the pass: two tracked resources with their recorded UID
resources ==
    << [namespace |-> "ns1", name |-> "n1", UID |-> "ns1-n1"],
       [namespace |-> "ns2", name |-> "n2", UID |-> "ns2-n2"] >>
ResIdx == 1..Len(resources)

\* UIDs a live object can carry when the pass starts: the recorded one and,
\* for the first resource, that of a later instance; a later instance of the
\* second resource is made by OtherRecreate during the pass
LiveUIDs(i) == IF i = 1 THEN {resources[i].UID, "new-1"} ELSE {resources[i].UID}
NextUID(uid) == IF uid = "new-1" THEN "new-2" ELSE IF uid = "new-2" THEN "new-3"
                ELSE IF uid = "new-3" THEN "new-4" ELSE "new-1"

NoObject == [present |-> FALSE, uid |-> "", rv |-> 0, owners |-> <<>>,
             deletionTimestamp |-> FALSE]

RECURSIVE OwnerLists(_)
OwnerLists(n) ==
    IF n = 0 THEN {<<>>}
    ELSE LET shorter == OwnerLists(n - 1)
         IN  shorter \cup
             {Append(l, o) : l \in {s \in shorter : Len(s) = n - 1},
                             o \in AllOwners}

NoDup(l) == \A i, j \in 1..Len(l) : i # j => l[i] # l[j]

\* The other owners are interchangeable: nothing in the pass tells one from
\* the other.  Of the owner lists that differ only by exchanging them, the
\* one that has ownerB before ownerC is drawn.
Canonical(l) ==
    \A j \in 1..Len(l) : l[j] = ownerC => \E i \in 1..(j - 1) : l[i] = ownerB

Objects(i) ==
    {NoObject} \cup
    {[present |-> TRUE, uid |-> uid, rv |-> 1, owners |-> l, deletionTimestamp |-> d] :
        uid \in LiveUIDs(i),
        l \in {s \in OwnerLists(MaxOwners) : NoDup(s) /\ Canonical(s)},
        d \in BOOLEAN}

VARIABLES
    cluster,    \* the object the API server holds for each tracked resource
    executor,   \* executor of the manifest work: "nil" or "ServiceAccount"
    idx,        \* position of the loop of DeleteAppliedResources in resources
    pc,         \* next API call of the pass for resources[idx]
    u,          \* object returned by Get for resources[idx]
    resourcesPendingFinalization,
    errs,
    events,     \* recorder.Eventf calls
    calls,      \* API calls of the pass, in order
    envSteps    \* changes made by other actors so far

\* one call of sarValidator.Validate
VARIABLES
    action,     \* ExecuteAction of the call
    gvr,        \* group and resource of the target
    config,     \* rest.Config of the validator: "nil" or "set"
    reviewIdx,  \* position of the loop of validateBySubjectAccessReviews
    authCalls,  \* API calls of the call of Validate, in order
    ret,        \* what Validate returned
    vpc         \* next step of the call of Validate

\* one call of MergeManifestConditions
VARIABLES
    conditions,          \* the existing manifest conditions, as the caller holds them
    newConditions,       \* the new manifest conditions, as the caller holds them
    newConditionsAtCall, \* the value of newConditions when the call was made
    merged,              \* what MergeManifestConditions returned
    mpc                  \* "call" before the call, "returned" after it

\* one call of ApplyOwnerReferences
VARIABLES
    applyExisting,       \* the object passed as `existing`
    applyRequired,       \* requiredOwner
    applyLive,           \* the object of that name on the API server
    applyCalls,          \* the calls made on the dynamic client, in order
    applyErr,            \* the error returned: "nil" or the answer of the Patch
    apc                  \* "call" before the call, "returned" after it

\* one call of UpdateManifestWorkStatus
VARIABLES
    store,               \* the ManifestWork the work client persists
    manifestWork,        \* the object passed by the caller
    fetchedWork,         \* the object the retry fetched with client.Get
    updateFuncs,         \* the update functions passed, in order
    attempt,             \* calls of updateManifestWorkStatus made so far
    statusCalls,         \* the calls made on the work client, in order
    statusRet,           \* updatedWorkStatus, updated and err
    otherWrites,         \* updates of the object by other writers so far
    spc                  \* "update", "get" or "returned"; "idle" without a call

\* the manifestwork event handler
VARIABLES
    handled,             \* the events handled, each with what it enqueued
    queue                \* the names passed to enqueueFunc, in order

\* one pass that applies the manifests of a work
VARIABLES
    spokeObjects,        \* names of the configmaps that exist on the spoke
    workLog,             \* per manifest handled: reviews, create call, condition
    workApplied          \* Applied condition of the work, "" before it is set

gcVars == <<cluster, idx, pc, u, resourcesPendingFinalization, errs,
            events, calls, envSteps>>

authVars == <<action, gvr, config, reviewIdx, authCalls, ret, vpc>>

mergeVars == <<conditions, newConditions, newConditionsAtCall, merged, mpc>>

applyVars == <<applyExisting, applyRequired, applyLive, applyCalls, applyErr, apc>>

statusVars == <<store, manifestWork, fetchedWork, updateFuncs, attempt,
                statusCalls, statusRet, otherWrites, spc>>

handlerVars == <<handled, queue>>

workVars == <<spokeObjects, workLog, workApplied>>

\* what a pass of DeleteAppliedResources leaves alone
nonGCVars ==
    <<authVars, mergeVars, applyVars, statusVars, handlerVars, workVars>>
\* what a call of Validate leaves alone, but for the executor
nonAuthVars ==
    <<gcVars, mergeVars, applyVars, statusVars, handlerVars, workVars>>
\* what a call of MergeManifestConditions leaves alone, but for the executor
nonMergeVars ==
    <<gcVars, authVars, applyVars, statusVars, handlerVars, workVars>>
\* what a call of ApplyOwnerReferences leaves alone, but for the executor
nonApplyVars ==
    <<gcVars, authVars, mergeVars, statusVars, handlerVars, workVars>>
\* what a call of UpdateManifestWorkStatus leaves alone, but for the executor
nonStatusVars ==
    <<gcVars, authVars, mergeVars, applyVars, handlerVars, workVars>>
\* what the event handler leaves alone, but for the executor
nonHandlerVars == <<gcVars, authVars, mergeVars, applyVars, statusVars, workVars>>

vars == <<cluster, executor, idx, pc, u, resourcesPendingFinalization, errs,
          events, calls, envSteps, action, gvr, config, reviewIdx,
          authCalls, ret, vpc, conditions, newConditions, newConditionsAtCall,
          merged, mpc, applyExisting, applyRequired, applyLive, applyCalls,
          applyErr, apc, store, manifestWork, fetchedWork, updateFuncs,
          attempt, statusCalls, statusRet, otherWrites, spc, handled, queue,
          spokeObjects, workLog, workApplied>>

\* no pass over the manifests of a work is under way
NoWorkPass ==
    /\ spokeObjects = {}
    /\ workLog = <<>>
    /\ workApplied = ""

\* the event handler has handled no event
NoEvents ==
    /\ handled = <<>>
    /\ queue = <<>>

\* no call of ApplyOwnerReferences is under way
NoApplyCall ==
    /\ applyExisting = NoObject
    /\ applyRequired = owner
    /\ applyLive = NoObject
    /\ applyCalls = <<>>
    /\ applyErr = "nil"
    /\ apc = "idle"

\* no call of MergeManifestConditions is under way
NoMergeCall ==
    /\ conditions = <<>>
    /\ newConditions = <<>>
    /\ newConditionsAtCall = <<>>
    /\ merged = <<>>
    /\ mpc = "idle"

\* a ManifestWork without status, and the nil status
NoWork == [status |-> <<>>, rv |-> 0]
\* a *ManifestWorkStatus: nil, or a status
NilStatus == [nil |-> TRUE, status |-> <<>>]
StatusPtr(status) == [nil |-> FALSE, status |-> status]
\* updatedWorkStatus, updated and err before the first attempt
NoStatusReturn == [status |-> NilStatus, updated |-> FALSE, err |-> "nil"]

\* no call of UpdateManifestWorkStatus is under way
NoStatusCall ==
    /\ store = NoWork
    /\ manifestWork = NoWork
    /\ fetchedWork = NoWork
    /\ updateFuncs = <<>>
    /\ attempt = 0
    /\ statusCalls = <<>>
    /\ statusRet = NoStatusReturn
    /\ otherWrites = 0
    /\ spc = "idle"

\* Validate has not returned
NoReturn == [kind |-> "none", RequeueTime |-> 0]

\* no call of sarValidator.Validate is under way
NoValidateCall ==
    /\ action = "Delete"
    /\ gvr = [Group |-> "", Resource |-> "configmaps"]
    /\ config = "nil"
    /\ reviewIdx = 0
    /\ authCalls = <<>>
    /\ ret = NoReturn
    /\ vpc = "idle"

Init ==
    /\ cluster \in {f \in [ResIdx -> UNION {Objects(i) : i \in ResIdx}] :
                        \A i \in ResIdx : f[i] \in Objects(i)}
    /\ executor \in {"nil", "ServiceAccount"}
    /\ idx = 1
    /\ pc = "get"
    /\ u = NoObject
    /\ resourcesPendingFinalization = <<>>
    /\ errs = <<>>
    /\ events = <<>>
    /\ calls = <<>>
    /\ envSteps = 0
    /\ NoValidateCall
    /\ NoMergeCall
    /\ NoApplyCall
    /\ NoStatusCall
    /\ NoEvents
    /\ NoWorkPass


\* -------------------------------------------------------- pure functions
\* helper.IsOwnedBy: an entry of the list carries the UID of myOwner
IsOwnedBy(myOwner, existingOwners) ==
    \E i \in 1..Len(existingOwners) : myOwner.uid = existingOwners[i].uid

\* ownerCopy of DeleteAppliedResources: the owner with "-" appended to its UID
ownerCopy == [owner EXCEPT !.uid = Append(owner.uid, "-")]

\* resourcemerge.MergeOwnerRefs matches an entry by the owner it names
ownerRefMatched(existing, required) == existing.name = required.name

RemoveAt(l, i) == [j \in 1..(Len(l) - 1) |-> IF j < i THEN l[j] ELSE l[j + 1]]

\* MergeOwnerRefs that reports a modification whatever it did
MergeOwnerRefs_alwaysModified(existing, required) ==
    LET removeOwner == required.uid[Len(required.uid)] = "-"
        matches == {i \in 1..Len(existing) : ownerRefMatched(existing[i], required)}
        existedIndex == IF matches = {} THEN Len(existing) + 1
                        ELSE CHOOSE i \in matches : \A j \in matches : i <= j
    IN  IF existedIndex = Len(existing) + 1
        THEN IF removeOwner
             THEN [modified |-> TRUE, owners |-> existing]
             ELSE [modified |-> TRUE, owners |-> Append(existing, required)]
        ELSE IF removeOwner
             THEN [modified |-> TRUE, owners |-> RemoveAt(existing, existedIndex)]
             ELSE [modified |-> TRUE,
                   owners |-> [existing EXCEPT ![existedIndex] = required]]

\* resourcemerge.MergeOwnerRefs(&modified, &existing, {required}) as called by
\* ApplyOwnerReferences: a required UID ending in "-" asks for the removal of
\* the matched entry; otherwise the entry is appended or overwritten.
MergeOwnerRefs(existing, required) ==
    LET removeOwner == required.uid[Len(required.uid)] = "-"
        matches == {i \in 1..Len(existing) : ownerRefMatched(existing[i], required)}
        existedIndex == IF matches = {} THEN Len(existing) + 1
                        ELSE CHOOSE i \in matches : \A j \in matches : i <= j
    IN  IF existedIndex = Len(existing) + 1
        THEN IF removeOwner
             THEN [modified |-> FALSE, owners |-> existing]
             ELSE [modified |-> TRUE, owners |-> Append(existing, required)]
        ELSE IF removeOwner
             THEN [modified |-> TRUE, owners |-> RemoveAt(existing, existedIndex)]
             ELSE IF required # existing[existedIndex]
                  THEN [modified |-> TRUE,
                        owners |-> [existing EXCEPT ![existedIndex] = required]]
                  ELSE [modified |-> FALSE, owners |-> existing]

\* PatchBody with the owner list set from the required owner alone
PatchBody_requiredOnly(existing, requiredOwner) ==
    [present |-> TRUE, uid |-> existing.uid, rv |-> existing.rv,
     owners |-> <<requiredOwner>>,
     deletionTimestamp |-> FALSE]

\* PatchBody without the resourceVersion of the fetched object
PatchBody_noResourceVersion(existing, requiredOwner) ==
    [present |-> TRUE, uid |-> existing.uid, rv |-> 0,
     owners |-> MergeOwnerRefs(existing.owners, requiredOwner).owners,
     deletionTimestamp |-> FALSE]

\* the merge patch ApplyOwnerReferences builds from the fetched object: its
\* UID, its resourceVersion and the merged owner list
PatchBody(existing, requiredOwner) ==
    [present |-> TRUE, uid |-> existing.uid, rv |-> existing.rv,
     owners |-> MergeOwnerRefs(existing.owners, requiredOwner).owners,
     deletionTimestamp |-> FALSE]

\* DeletePrecondition with no UID precondition set
DeletePrecondition_none(resource) == ""

\* Preconditions.UID of the Delete call
DeletePrecondition(resource) == resource.UID

\* answers of the subject access review for the verb "delete"
SarAnswers == {"allowed", "denied", "error"}

\* validator.ValidateDelete: nil for an unset executor, a Forbidden error on
\* a denied review, the error of a failed review otherwise
ValidateDelete(exec, sar) ==
    IF exec = "nil" THEN "nil"
    ELSE IF sar = "error" THEN "error"
    ELSE IF sar = "denied" THEN "forbidden"
    ELSE "nil"

\* AfterGet that goes on to the delete without the authorization check
AfterGet_skipValidate(answer, obj) ==
    IF answer = "notfound" THEN "continue"
    ELSE IF answer = "error" THEN "error"
    ELSE IF ~IsOwnedBy(owner, obj.owners) THEN "continue"
    ELSE "delete"

\* AfterGet that reports NotFound as an error
AfterGet_notFoundIsError(answer, obj) ==
    IF answer # "ok" THEN "error"
    ELSE IF ~IsOwnedBy(owner, obj.owners) THEN "continue"
    ELSE "validate"

\* AfterGet without the ownership test
AfterGet_noOwnerCheck(answer, obj) ==
    IF answer = "notfound" THEN "continue"
    ELSE IF answer = "error" THEN "error"
    ELSE "validate"

\* the code after dynamicClient.Get, up to the next call
AfterGet(answer, obj) ==
    IF answer = "notfound" THEN "continue"
    ELSE IF answer = "error" THEN "error"
    ELSE IF ~IsOwnedBy(owner, obj.owners) THEN "continue"
    ELSE "validate"

\* AfterValidate without the comparison of the recorded UID
AfterValidate_noUIDCheck(err, resource, obj) ==
    IF err # "nil" /\ err # "forbidden" THEN "error"
    ELSE IF Len(obj.owners) > 1
    THEN IF MergeOwnerRefs(obj.owners, ownerCopy).modified THEN "patch"
         ELSE "continue"
    ELSE IF obj.deletionTimestamp THEN "pending"
    ELSE "delete"

\* AfterValidate that treats a denial as any other error
AfterValidate_deniedIsError(err, resource, obj) ==
    IF err # "nil" THEN "error"
    ELSE IF Len(obj.owners) > 1
    THEN IF MergeOwnerRefs(obj.owners, ownerCopy).modified THEN "patch"
         ELSE "continue"
    ELSE IF resource.UID # obj.uid THEN "continue"
    ELSE IF obj.deletionTimestamp THEN "pending"
    ELSE "delete"

\* AfterValidate without the test of the deletion timestamp
AfterValidate_noTerminatingCheck(err, resource, obj) ==
    IF err # "nil" /\ err # "forbidden" THEN "error"
    ELSE IF Len(obj.owners) > 1
    THEN IF MergeOwnerRefs(obj.owners, ownerCopy).modified THEN "patch"
         ELSE "continue"
    ELSE IF resource.UID # obj.uid THEN "continue"
    ELSE "delete"

\* the code after validator.ValidateDelete, up to the next call
AfterValidate(err, resource, obj) ==
    IF err # "nil" /\ err # "forbidden" THEN "error"
    ELSE IF Len(obj.owners) > 1
    THEN IF MergeOwnerRefs(obj.owners, ownerCopy).modified THEN "patch"
         ELSE "continue"
    ELSE IF resource.UID # obj.uid THEN "continue"
    ELSE IF obj.deletionTimestamp THEN "pending"
    ELSE "delete"

\* AfterDelete that reports a Conflict as an error
AfterDelete_conflictIsError(answer) ==
    IF answer = "notfound" THEN "continue"
    ELSE IF answer # "ok" THEN "error"
    ELSE "pending"

\* the code after the Delete call
AfterDelete(answer) ==
    IF answer = "notfound" THEN "continue"
    ELSE IF answer = "conflict" THEN "continue"
    ELSE IF answer # "ok" THEN "error"
    ELSE "pending"

\* ------------------------------------------------------------ API server
\* Get: the object, NotFound, or another error
GetAnswers(live) == {"error"} \cup {IF live.present THEN "ok" ELSE "notfound"}

\* Patch with a merge patch: a metadata.uid or metadata.resourceVersion in the
\* patch that differs from the live object's makes the patch a Conflict
PatchAnswers(live, body) ==
    IF ~live.present THEN {"notfound"}
    ELSE IF body.uid # "" /\ live.uid # body.uid THEN {"conflict"}
    ELSE IF body.rv # 0 /\ live.rv # body.rv THEN {"conflict"}
    ELSE {"ok", "error"}

\* Delete with Preconditions.UID: NotFound, Conflict on another UID, and
\* otherwise the delete is accepted or refused with another error
DeleteAnswers(live, precondition) ==
    IF ~live.present THEN {"notfound"}
    ELSE IF precondition # "" /\ live.uid # precondition THEN {"conflict"}
    ELSE {"ok", "error"}

Call(op, answer, body) ==
    [op |-> op, res |-> idx, answer |-> answer, body |-> body, live |-> cluster[idx]]

\* `continue` of the loop over resources
Continue ==
    /\ idx' = idx + 1
    /\ pc' = IF idx + 1 > Len(resources) THEN "done" ELSE "get"
    /\ u' = NoObject

\* ContinueAfterError that reports the failure twice
ContinueAfterError_twice(op) ==
    /\ errs' = Append(Append(errs, [res |-> idx, op |-> op]), [res |-> idx, op |-> op])
    /\ Continue

\* ContinueAfterError that returns from the pass instead of continuing
ContinueAfterError_return(op) ==
    /\ errs' = Append(errs, [res |-> idx, op |-> op])
    /\ idx' = Len(resources) + 1
    /\ pc' = "done"
    /\ u' = NoObject

\* errs = append(errs, ...); continue
ContinueAfterError(op) ==
    /\ errs' = Append(errs, [res |-> idx, op |-> op])
    /\ Continue

\* ------------------------------------------------- DeleteAppliedResources
\* dynamicClient.Get and the ownership test that follows it
Get ==
    /\ pc = "get"
    /\ \E answer \in GetAnswers(cluster[idx]) :
        LET step == AfterGet(answer, cluster[idx]) IN
        /\ calls' = Append(calls, Call("get", answer, NoObject))
        /\ IF step = "continue" THEN Continue /\ UNCHANGED errs
           ELSE IF step = "error" THEN ContinueAfterError("get")
           ELSE /\ u' = cluster[idx]
                /\ pc' = step
                /\ UNCHANGED <<idx, errs>>
    /\ UNCHANGED <<cluster, executor, resourcesPendingFinalization, events, envSteps>>
    /\ UNCHANGED nonGCVars

\* validator.ValidateDelete and the code up to the next API call
Validate ==
    /\ pc = "validate"
    /\ \E sar \in SarAnswers :
        LET err  == ValidateDelete(executor, sar)
            step == AfterValidate(err, resources[idx], u) IN
        /\ calls' = Append(calls, Call("validate", err, NoObject))
        /\ IF step = "error"
           THEN ContinueAfterError("validate") /\ UNCHANGED resourcesPendingFinalization
           ELSE IF step = "continue"
           THEN Continue /\ UNCHANGED <<errs, resourcesPendingFinalization>>
           ELSE IF step = "pending"
           THEN /\ resourcesPendingFinalization' =
                        Append(resourcesPendingFinalization, idx)
                /\ Continue
                /\ UNCHANGED errs
           ELSE /\ pc' = step
                /\ UNCHANGED <<idx, u, errs, resourcesPendingFinalization>>
    /\ UNCHANGED <<cluster, executor, events, envSteps>>
    /\ UNCHANGED nonGCVars

\* the Patch call of ApplyOwnerReferences
Patch ==
    /\ pc = "patch"
    /\ LET body == PatchBody(u, ownerCopy) IN
       \E answer \in PatchAnswers(cluster[idx], body) :
        /\ calls' = Append(calls, Call("patch", answer, body))
        /\ cluster' = IF answer = "ok"
                      THEN [cluster EXCEPT ![idx].owners = body.owners,
                                           ![idx].rv = @ + 1]
                      ELSE cluster
        /\ IF answer = "ok" THEN Continue /\ UNCHANGED errs
           ELSE ContinueAfterError("patch")
    /\ UNCHANGED <<executor, resourcesPendingFinalization, events, envSteps>>
    /\ UNCHANGED nonGCVars

\* the Delete call with the UID precondition and background propagation
Delete ==
    /\ pc = "delete"
    /\ LET precondition == DeletePrecondition(resources[idx]) IN
       \E answer \in DeleteAnswers(cluster[idx], precondition), finalizers \in BOOLEAN :
        LET step == AfterDelete(answer) IN
        /\ calls' = Append(calls, Call("delete", answer,
                                       [NoObject EXCEPT !.uid = precondition]))
        /\ cluster' = IF answer # "ok" THEN cluster
                      ELSE IF finalizers \/ cluster[idx].deletionTimestamp
                      THEN [cluster EXCEPT ![idx].deletionTimestamp = TRUE,
                                           ![idx].rv = @ + 1]
                      ELSE [cluster EXCEPT ![idx] = NoObject]
        /\ IF step = "error" THEN ContinueAfterError("delete") ELSE Continue /\ UNCHANGED errs
        /\ resourcesPendingFinalization' =
                IF step = "pending" THEN Append(resourcesPendingFinalization, idx)
                ELSE resourcesPendingFinalization
        /\ events' = IF step = "pending" THEN Append(events, idx) ELSE events
    /\ UNCHANGED <<executor, envSteps>>
    /\ UNCHANGED nonGCVars

\* ------------------------------------------------------------ other actors
\* Other actors change the object the pass is working on between the Get of
\* the pass and its Patch or Delete of that object.  A change made before the
\* Get leaves an object that Init already draws, a change made after the last
\* call is not seen by the pass, and ValidateDelete neither reads nor writes
\* the object, so a change made before it is the same change made after it.
EnvStep ==
    /\ pc \in {"patch", "delete"}
    /\ envSteps < MaxEnvSteps
    /\ cluster[idx].present
    /\ envSteps' = envSteps + 1
    /\ UNCHANGED <<executor, idx, pc, u, resourcesPendingFinalization, errs,
                   events, calls>>
    /\ UNCHANGED nonGCVars

\* another actor adds an owner reference to the object
OtherAddOwner ==
    /\ EnvStep
    /\ \E o \in AllOwners :
        /\ Len(cluster[idx].owners) < MaxOwners
        /\ NoDup(Append(cluster[idx].owners, o))
        /\ o = ownerC => \E j \in 1..Len(cluster[idx].owners) : cluster[idx].owners[j] = ownerB
        /\ cluster' = [cluster EXCEPT ![idx].owners = Append(@, o), ![idx].rv = @ + 1]

\* another actor removes an owner reference from the object
OtherRemoveOwner ==
    /\ EnvStep
    /\ \E j \in 1..Len(cluster[idx].owners) :
        cluster' = [cluster EXCEPT ![idx].owners = RemoveAt(@, j), ![idx].rv = @ + 1]

\* another actor deletes the object and creates it again: a new UID
OtherRecreate ==
    /\ EnvStep
    /\ cluster' = [cluster EXCEPT ![idx].uid = NextUID(@), ![idx].rv = @ + 1,
                                  ![idx].deletionTimestamp = FALSE]

\* another actor deletes the object, which has finalizers
OtherDelete ==
    /\ EnvStep
    /\ ~cluster[idx].deletionTimestamp
    /\ cluster' = [cluster EXCEPT ![idx].deletionTimestamp = TRUE, ![idx].rv = @ + 1]

\* the finalizers of the terminating object complete: the object is gone
Finalize ==
    /\ EnvStep
    /\ cluster[idx].deletionTimestamp
    /\ cluster' = [cluster EXCEPT ![idx] = NoObject]

Next ==
    \/ Get
    \/ Validate
    \/ Patch
    \/ Delete
    \/ OtherAddOwner
    \/ OtherRemoveOwner
    \/ OtherRecreate
    \/ OtherDelete
    \/ Finalize

Spec == Init /\ [][Next]_vars

TypeOK ==
    /\ idx \in 1..(Len(resources) + 1)
    /\ pc \in {"get", "validate", "patch", "delete", "done"}
    /\ (pc = "done") = (idx = Len(resources) + 1)

\* --------------------------------------------------------- repeated passes
\* Objects of a tracked resource that only the agent owns and that carry the
\* recorded UID
SoleObjects(i) ==
    {NoObject} \cup
    {[present |-> TRUE, uid |-> resources[i].UID, rv |-> 1, owners |-> <<owner>>,
      deletionTimestamp |-> d] : d \in BOOLEAN}

InitPasses ==
    /\ cluster \in {f \in [ResIdx -> UNION {SoleObjects(i) : i \in ResIdx}] :
                        \A i \in ResIdx : f[i] \in SoleObjects(i)}
    /\ executor \in {"nil", "ServiceAccount"}
    /\ idx = 1
    /\ pc = "get"
    /\ u = NoObject
    /\ resourcesPendingFinalization = <<>>
    /\ errs = <<>>
    /\ events = <<>>
    /\ calls = <<>>
    /\ envSteps = 0
    /\ NoValidateCall
    /\ NoMergeCall
    /\ NoApplyCall
    /\ NoStatusCall
    /\ NoEvents
    /\ NoWorkPass

\* NewPass that keeps the list of the pass before
NewPass_keepsPending ==
    /\ pc = "done"
    /\ idx' = 1
    /\ pc' = "get"
    /\ u' = NoObject
    /\ errs' = <<>>
    /\ calls' = <<>>
    /\ UNCHANGED <<cluster, executor, resourcesPendingFinalization, events, envSteps>>
    /\ UNCHANGED nonGCVars

\* the next call of DeleteAppliedResources with the same resources: its
\* output lists are new local variables
NewPass ==
    /\ pc = "done"
    /\ idx' = 1
    /\ pc' = "get"
    /\ u' = NoObject
    /\ resourcesPendingFinalization' = <<>>
    /\ errs' = <<>>
    /\ calls' = <<>>
    /\ UNCHANGED <<cluster, executor, events, envSteps>>
    /\ UNCHANGED nonGCVars

\* the cluster removes an object that carries a deletion timestamp
ClusterRemoves ==
    /\ \E r \in ResIdx :
        /\ cluster[r].present
        /\ cluster[r].deletionTimestamp
        /\ cluster' = [cluster EXCEPT ![r] = NoObject]
    /\ UNCHANGED <<executor, idx, pc, u, resourcesPendingFinalization, errs,
                   events, calls, envSteps>>
    /\ UNCHANGED nonGCVars

NextPasses ==
    \/ Get
    \/ Validate
    \/ Delete
    \/ NewPass
    \/ ClusterRemoves

\* the Get call for resources[r] is answered without an error
GetAnswered(r) ==
    /\ Get
    /\ idx = r
    /\ calls'[Len(calls')].answer # "error"

\* Passes keep being run and every started call is answered; the Get call for
\* a resource does not fail in every pass.
FairSpecPasses ==
    /\ InitPasses
    /\ [][NextPasses]_vars
    /\ WF_vars(Get)
    /\ WF_vars(Validate)
    /\ WF_vars(Delete)
    /\ WF_vars(NewPass)
    /\ \A r \in ResIdx : SF_vars(GetAnswered(r))

\* ----------------------------------------------------- sarValidator.Validate
\* executors: none, a service account, a subject of another type, and the
\* service-account type without a service account
Executors == {"nil", "ServiceAccount", "User", "ServiceAccountNil"}
\* ExecuteAction values: the two known ones and an unknown one
Actions == {"Apply", "Delete", "Other"}
RBACGroup == "rbac.authorization.k8s.io"
\* targets: the four kinds the escalation check covers, another resource of
\* their group, a core resource and a resource named roles of another group
Targets ==
    {[Group |-> RBACGroup, Resource |-> r] :
        r \in {"roles", "rolebindings", "clusterroles", "clusterrolebindings",
               "others"}}
    \cup {[Group |-> "", Resource |-> "configmaps"],
          [Group |-> "example.io", Resource |-> "roles"]}

\* seconds
RequeueTime == 60
NotAllowedError == [kind |-> "NotAllowedError", RequeueTime |-> RequeueTime]
ReturnNil == [kind |-> "nil", RequeueTime |-> 0]
ReturnErr == [kind |-> "error", RequeueTime |-> 0]

\* Verbs that also asks for list on Apply
Verbs_withList(act) ==
    IF act = "Apply" THEN <<"create", "update", "patch", "get", "list">>
    ELSE IF act = "Delete" THEN <<"delete">>
    ELSE <<>>

\* the verbs of an action; no verbs for an unknown action
Verbs(act) ==
    IF act = "Apply" THEN <<"create", "update", "patch", "get">>
    ELSE IF act = "Delete" THEN <<"delete">>
    ELSE <<>>

\* ValidateEntry that sends a nil executor to the reviews
ValidateEntry_reviewsNilExecutor(exec, act) ==
    IF exec \notin {"nil", "ServiceAccount"} THEN "error"
    ELSE IF Verbs(act) = <<>> THEN "error"
    ELSE "review"

\* ValidateEntry without the checks of the subject
ValidateEntry_noSubjectCheck(exec, act) ==
    IF exec = "nil" THEN "nil"
    ELSE IF Verbs(act) = <<>> THEN "error"
    ELSE "review"

\* the checks of Validate before the first review
ValidateEntry(exec, act) ==
    IF exec = "nil" THEN "nil"
    ELSE IF exec = "User" THEN "error"
    ELSE IF exec = "ServiceAccountNil" THEN "error"
    ELSE IF Verbs(act) = <<>> THEN "error"
    ELSE "review"

\* AfterReview that takes a denial for an allowance
AfterReview_deniedIsAllowed(answer, k, n) ==
    IF answer = "error" THEN "error"
    ELSE IF k < n THEN "next"
    ELSE "allowed"

\* AfterReview that goes on to the next verb after a denial
AfterReview_noShortCircuit(answer, k, n) ==
    IF answer = "error" THEN "error"
    ELSE IF k < n THEN "next"
    ELSE IF answer = "denied" THEN "denied"
    ELSE "allowed"

\* AfterReview that takes a failed review for a denial
AfterReview_errorIsDenial(answer, k, n) ==
    IF answer = "error" THEN "denied"
    ELSE IF answer = "denied" THEN "denied"
    ELSE IF k < n THEN "next"
    ELSE "allowed"

\* what the loop of validateBySubjectAccessReviews does with the answer of
\* review k of n
AfterReview(answer, k, n) ==
    IF answer = "error" THEN "error"
    ELSE IF answer = "denied" THEN "denied"
    ELSE IF k < n THEN "next"
    ELSE "allowed"

\* EscalationGuarded that does not look at the group
EscalationGuarded_anyGroup(act, target) ==
    /\ act = "Apply"
    /\ target.Resource \in {"roles", "rolebindings", "clusterroles",
                            "clusterrolebindings"}

\* the switch after the reviews: checkEscalation is called
EscalationGuarded(act, target) ==
    /\ act = "Apply"
    /\ target.Group = RBACGroup
    /\ target.Resource \in {"roles", "rolebindings", "clusterroles",
                            "clusterrolebindings"}

defaultNewImpersonateClient(cfg) == IF cfg = "nil" THEN "error" ELSE "client"

\* answers of the API server to the dry-run create
DryRunAnswers == {"ok", "forbidden", "alreadyexists", "error"}

\* DryRunResult that returns an AlreadyExists answer as an error
DryRunResult_existsIsError(answer) ==
    IF answer = "forbidden" THEN NotAllowedError
    ELSE IF answer = "ok" THEN ReturnNil
    ELSE ReturnErr

\* what checkEscalation returns for the answer of the dry-run create
DryRunResult(answer) ==
    IF answer = "forbidden" THEN NotAllowedError
    ELSE IF answer = "alreadyexists" THEN ReturnNil
    ELSE IF answer = "ok" THEN ReturnNil
    ELSE ReturnErr

InitValidate ==
    /\ executor \in Executors
    /\ action \in Actions
    /\ gvr \in Targets
    /\ config \in {"nil", "set"}
    /\ reviewIdx = 0
    /\ authCalls = <<>>
    /\ ret = NoReturn
    /\ vpc = "start"
    /\ cluster = [i \in ResIdx |-> NoObject]
    /\ idx = Len(resources) + 1
    /\ pc = "done"
    /\ u = NoObject
    /\ resourcesPendingFinalization = <<>>
    /\ errs = <<>>
    /\ events = <<>>
    /\ calls = <<>>
    /\ envSteps = 0
    /\ NoMergeCall
    /\ NoApplyCall
    /\ NoStatusCall
    /\ NoEvents
    /\ NoWorkPass

\* Validate up to the call of validateBySubjectAccessReviews
sarValidatorValidate ==
    /\ vpc = "start"
    /\ LET step == ValidateEntry(executor, action) IN
        IF step = "review"
        THEN /\ vpc' = "review"
             /\ reviewIdx' = 1
             /\ UNCHANGED ret
        ELSE /\ vpc' = "returned"
             /\ ret' = IF step = "nil" THEN ReturnNil ELSE ReturnErr
             /\ UNCHANGED reviewIdx
    /\ UNCHANGED <<executor, action, gvr, config, authCalls>>
    /\ UNCHANGED nonAuthVars

\* one SubjectAccessReviews().Create call of the loop, and after the last
\* one the code of Validate up to the call of checkEscalation
validateBySubjectAccessReviews ==
    /\ vpc = "review"
    /\ \E answer \in SarAnswers :
        LET step == AfterReview(answer, reviewIdx, Len(Verbs(action))) IN
        /\ authCalls' = Append(authCalls, [op |-> "review",
                                           verb |-> Verbs(action)[reviewIdx],
                                           answer |-> answer])
        /\ IF step = "next"
           THEN /\ reviewIdx' = reviewIdx + 1
                /\ UNCHANGED <<vpc, ret>>
           ELSE IF step = "allowed" /\ EscalationGuarded(action, gvr)
           THEN /\ vpc' = "escalation"
                /\ UNCHANGED <<reviewIdx, ret>>
           ELSE /\ vpc' = "returned"
                /\ ret' = IF step = "error" THEN ReturnErr
                          ELSE IF step = "denied" THEN NotAllowedError
                          ELSE ReturnNil
                /\ UNCHANGED reviewIdx
    /\ UNCHANGED <<executor, action, gvr, config>>
    /\ UNCHANGED nonAuthVars

\* the impersonating client and its dry-run Create call
checkEscalation ==
    /\ vpc = "escalation"
    /\ IF defaultNewImpersonateClient(config) = "error"
       THEN /\ ret' = ReturnErr
            /\ UNCHANGED authCalls
       ELSE \E answer \in DryRunAnswers :
            /\ authCalls' = Append(authCalls, [op |-> "dryrun", verb |-> "create",
                                               answer |-> answer])
            /\ ret' = DryRunResult(answer)
    /\ vpc' = "returned"
    /\ UNCHANGED <<executor, action, gvr, config, reviewIdx>>
    /\ UNCHANGED nonAuthVars

NextValidate ==
    \/ sarValidatorValidate
    \/ validateBySubjectAccessReviews
    \/ checkEscalation

SpecValidate == InitValidate /\ [][NextValidate]_vars

\* ------------------------------------------------- MergeManifestConditions
\* longest list of manifest conditions
MaxRecords == 2
\* latest transition time of a condition of the inputs; 0 is the zero time
MaxTime == 2
Times == 0..MaxTime
\* time.Now() during the call: later than every time of the inputs
Now == MaxTime + 1

\* ManifestResourceMeta: the ordinal, and the identity that the other fields
\* make together
Meta(ordinal, resource) == [Ordinal |-> ordinal, Resource |-> resource]
ZeroMeta == Meta(0, "")
Metas ==
    {Meta(o, "resource1") : o \in {0, 1, 2}}
    \cup {Meta(o, r) : o \in {0, 1}, r \in {"", "resource2"}}

Types == {"one", "two"}
Statuses == {"True", "False"}
Condition(type, status, reason, time) ==
    [Type |-> type, Status |-> status, Reason |-> reason, LastTransitionTime |-> time]

\* lists of conditions of distinct types, each with the given reason
RECURSIVE ConditionLists(_, _)
ConditionLists(types, reason) ==
    {<<>>} \cup
    UNION {{<<Condition(t, st, reason, tm)>> \o l :
                st \in Statuses, tm \in Times,
                l \in ConditionLists(types \ {t}, reason)} : t \in types}

\* a ManifestCondition
Record(meta, feedbacks, conds) ==
    [ResourceMeta |-> meta, StatusFeedbacks |-> feedbacks, Conditions |-> conds]

DistinctMetas(l) ==
    \A i, j \in 1..Len(l) : i # j => l[i].ResourceMeta # l[j].ResourceMeta

\* lists of at most n of the given records
RECURSIVE RecordLists(_, _)
RecordLists(records, n) ==
    IF n = 0 THEN {<<>>}
    ELSE LET shorter == RecordLists(records, n - 1)
         IN  shorter \cup
             {Append(l, r) : l \in {x \in shorter : Len(x) = n - 1}, r \in records}

\* records with one condition: the existing ones carry status feedback
PlainExisting ==
    {Record(m, <<"feedback", m.Ordinal>>,
            <<Condition("one", "True", "old", 1)>>) : m \in Metas}
PlainNew ==
    {Record(m, <<>>, <<Condition("one", "True", "new", 2)>>) : m \in Metas}

\* inputs that vary the records: lists of records with distinct metas
RecordInputs ==
    {<<e, f>> : e \in {l \in RecordLists(PlainExisting, MaxRecords) : DistinctMetas(l)},
                f \in {l \in RecordLists(PlainNew, MaxRecords) : DistinctMetas(l)}}

\* inputs that vary the conditions: one existing record, and one new record
\* that matches it exactly, matches it without the ordinal, or does not match
ConditionInputs ==
    {<<e, f>> :
        e \in {<<Record(Meta(0, "resource1"), <<"feedback", 0>>, c)>> :
                    c \in ConditionLists(Types, "old")},
        f \in {<<Record(m, <<>>, c)>> :
                    m \in {Meta(0, "resource1"), Meta(1, "resource1"),
                           Meta(0, "resource2")},
                    c \in ConditionLists(Types, "new")}}

\* inputs with the same list on both sides
EqualInputs ==
    {<<e, e>> : e \in {l \in RecordLists(PlainExisting, MaxRecords) : DistinctMetas(l)}}
    \cup {<<<<Record(Meta(0, "resource1"), <<"feedback", 0>>, c)>>,
            <<Record(Meta(0, "resource1"), <<"feedback", 0>>, c)>>>> :
                c \in ConditionLists(Types, "old")}

\* the record without its ordinal
resetOrdinal(meta) == [meta EXCEPT !.Ordinal = 0]

\* metaIndex[meta]: the position in conds of the record the index holds for
\* meta, the last one with that meta, or 0
metaIndex(conds, meta) ==
    LET S == {k \in 1..Len(conds) : conds[k].ResourceMeta = meta}
    IN  IF S = {} THEN 0 ELSE CHOOSE k \in S : \A j \in S : j <= k

\* metaWithoutOridinalIndex that keeps the first of the records that collide
metaWithoutOridinalIndex_keepsFirst(conds, meta) ==
    LET S == {k \in 1..Len(conds) : resetOrdinal(conds[k].ResourceMeta) = meta}
    IN  IF meta = ZeroMeta \/ S = {} THEN 0
        ELSE CHOOSE k \in S : \A j \in S : k <= j

\* metaWithoutOridinalIndex[meta]: the position in conds of the only record
\* with that meta once its ordinal is reset, or 0; a zero meta is not indexed
metaWithoutOridinalIndex(conds, meta) ==
    LET S == {k \in 1..Len(conds) : resetOrdinal(conds[k].ResourceMeta) = meta}
    IN  IF meta = ZeroMeta \/ Cardinality(S) # 1 THEN 0
        ELSE CHOOSE k \in S : TRUE

\* the position of the existing record that newCondition is merged with, or 0
MatchedCondition(conds, newCondition) ==
    LET k == metaIndex(conds, newCondition.ResourceMeta)
    IN  IF k # 0 THEN k
        ELSE metaWithoutOridinalIndex(conds, resetOrdinal(newCondition.ResourceMeta))

\* meta.FindStatusCondition: the position of the first condition of the type
FindStatusCondition(conds, type) ==
    LET S == {k \in 1..Len(conds) : conds[k].Type = type}
    IN  IF S = {} THEN 0 ELSE CHOOSE k \in S : \A j \in S : k <= j

\* SetStatusCondition that moves a condition it changes to the end of the list
SetStatusCondition_movesToEnd(conds, newCondition) ==
    LET k == FindStatusCondition(conds, newCondition.Type)
        time == IF newCondition.LastTransitionTime # 0
                THEN newCondition.LastTransitionTime ELSE Now
    IN  IF k = 0
        THEN Append(conds, [newCondition EXCEPT !.LastTransitionTime = time])
        ELSE Append(SelectSeq(conds, LAMBDA c : c.Type # newCondition.Type),
                [Type |-> conds[k].Type,
                 Status |-> newCondition.Status,
                 Reason |-> newCondition.Reason,
                 LastTransitionTime |->
                    IF conds[k].Status # newCondition.Status THEN time
                    ELSE conds[k].LastTransitionTime])

\* SetStatusCondition that takes the transition time of the new condition
\* whether or not the status changed
SetStatusCondition_alwaysNewTime(conds, newCondition) ==
    LET k == FindStatusCondition(conds, newCondition.Type)
        time == IF newCondition.LastTransitionTime # 0
                THEN newCondition.LastTransitionTime ELSE Now
    IN  IF k = 0
        THEN Append(conds, [newCondition EXCEPT !.LastTransitionTime = time])
        ELSE [conds EXCEPT ![k] = [newCondition EXCEPT !.LastTransitionTime = time]]

\* meta.SetStatusCondition
SetStatusCondition(conds, newCondition) ==
    LET k == FindStatusCondition(conds, newCondition.Type)
        time == IF newCondition.LastTransitionTime # 0
                THEN newCondition.LastTransitionTime ELSE Now
    IN  IF k = 0
        THEN Append(conds, [newCondition EXCEPT !.LastTransitionTime = time])
        ELSE [conds EXCEPT ![k] =
                [Type |-> conds[k].Type,
                 Status |-> newCondition.Status,
                 Reason |-> newCondition.Reason,
                 LastTransitionTime |->
                    IF conds[k].Status # newCondition.Status THEN time
                    ELSE conds[k].LastTransitionTime]]

\* the loop of MergeStatusConditions from its i-th new condition on
RECURSIVE SetStatusConditions(_, _, _)
SetStatusConditions(mergedConds, newConds, i) ==
    IF i > Len(newConds) THEN mergedConds
    ELSE SetStatusConditions(SetStatusCondition(mergedConds, newConds[i]), newConds, i + 1)

\* MergeStatusConditions that appends the new conditions to the existing ones
MergeStatusConditions_appendsAll(conds, newConds) == conds \o newConds

\* MergeStatusConditions that leaves out the conditions without a new one
MergeStatusConditions_dropsAbsent(conds, newConds) ==
    SetStatusConditions(
        SelectSeq(conds, LAMBDA c : FindStatusCondition(newConds, c.Type) # 0),
        newConds, 1)

MergeStatusConditions(conds, newConds) == SetStatusConditions(conds, newConds, 1)

\* mergeManifestCondition that keeps the status feedback of the new condition
mergeManifestCondition_newFeedbacks(condition, newCondition) ==
    Record(newCondition.ResourceMeta,
           newCondition.StatusFeedbacks,
           MergeStatusConditions(condition.Conditions, newCondition.Conditions))

mergeManifestCondition(condition, newCondition) ==
    Record(newCondition.ResourceMeta,
           condition.StatusFeedbacks,
           MergeStatusConditions(condition.Conditions, newCondition.Conditions))

\* StampNow that stamps only the conditions without a transition time
StampNow_onlyZero(newCondition) ==
    [newCondition EXCEPT !.Conditions =
        [i \in DOMAIN @ |->
            [@[i] EXCEPT !.LastTransitionTime = IF @ = 0 THEN Now ELSE @]]]

\* the loop that sets LastTransitionTime of the conditions of an unmatched
\* new condition
StampNow(newCondition) ==
    [newCondition EXCEPT !.Conditions =
        [i \in DOMAIN @ |-> [@[i] EXCEPT !.LastTransitionTime = Now]]]

\* one iteration of the loop over newConditions: what is appended to merged
MergeOne(conds, newCondition) ==
    LET k == MatchedCondition(conds, newCondition)
    IN  IF k # 0 THEN mergeManifestCondition(conds[k], newCondition)
        ELSE StampNow(newCondition)

\* MergedList that appends the existing records that matched nothing
MergedList_keepsStale(conds, newConds) ==
    [i \in 1..Len(newConds) |-> MergeOne(conds, newConds[i])]
    \o SelectSeq(conds, LAMBDA c :
            \A i \in 1..Len(newConds) :
                MatchedCondition(conds, newConds[i]) = 0
                \/ conds[MatchedCondition(conds, newConds[i])] # c)

\* the list MergeManifestConditions returns
MergedList(conds, newConds) ==
    [i \in 1..Len(newConds) |-> MergeOne(conds, newConds[i])]

\* the new conditions of the caller after the call: the loop variable
\* newCondition is a copy of the element, its Conditions slice shares the
\* array of the element, and the unmatched branch writes through it
NewConditionsAfter(conds, newConds) ==
    [i \in 1..Len(newConds) |->
        IF MatchedCondition(conds, newConds[i]) # 0 THEN newConds[i]
        ELSE StampNow(newConds[i])]

\* no pass of DeleteAppliedResources is under way
NoPass ==
    /\ cluster = [i \in ResIdx |-> NoObject]
    /\ executor = "nil"
    /\ idx = Len(resources) + 1
    /\ pc = "done"
    /\ u = NoObject
    /\ resourcesPendingFinalization = <<>>
    /\ errs = <<>>
    /\ events = <<>>
    /\ calls = <<>>
    /\ envSteps = 0

InitMerge ==
    /\ \E in \in RecordInputs \cup ConditionInputs \cup EqualInputs :
        /\ conditions = in[1]
        /\ newConditions = in[2]
        /\ newConditionsAtCall = in[2]
    /\ merged = <<>>
    /\ mpc = "call"
    /\ NoPass
    /\ NoValidateCall
    /\ NoApplyCall
    /\ NoStatusCall
    /\ NoEvents
    /\ NoWorkPass

\* the call of MergeManifestConditions(conditions, newConditions)
MergeManifestConditions ==
    /\ mpc = "call"
    /\ merged' = MergedList(conditions, newConditions)
    /\ newConditions' = NewConditionsAfter(conditions, newConditions)
    /\ mpc' = "returned"
    /\ UNCHANGED <<conditions, newConditionsAtCall, executor>>
    /\ UNCHANGED nonMergeVars

NextMerge == MergeManifestConditions

SpecMerge == InitMerge /\ [][NextMerge]_vars

\* --------------------------------------------------- ApplyOwnerReferences
\* requiredOwner: an owner to add, an owner to remove (its UID ends in "-"),
\* or the agent's owner under another UID
RequiredOwners ==
    AllOwners
    \cup {[o EXCEPT !.uid = Append(o.uid, "-")] : o \in AllOwners}
    \cup {[owner EXCEPT !.uid = <<"z">>]}

\* the object passed as `existing`
ExistingObjects ==
    {[present |-> TRUE, uid |-> resources[1].UID, rv |-> 1, owners |-> l,
      deletionTimestamp |-> FALSE] :
        l \in {x \in OwnerLists(MaxOwners) : NoDup(x)}}

\* the object on the API server when ApplyOwnerReferences is called: the one
\* passed, a later version of it, or none
LiveObjects(obj) == {obj, [obj EXCEPT !.rv = @ + 1], NoObject}

\* no pass and no other call is under way
InitApply ==
    /\ applyExisting \in ExistingObjects
    /\ applyRequired \in RequiredOwners
    /\ applyLive \in LiveObjects(applyExisting)
    /\ applyCalls = <<>>
    /\ applyErr = "nil"
    /\ apc = "call"
    /\ NoPass
    /\ NoValidateCall
    /\ NoMergeCall
    /\ NoStatusCall
    /\ NoEvents
    /\ NoWorkPass

\* ApplyOwnerReferences(ctx, dynamicClient, gvr, existing, requiredOwner)
ApplyOwnerReferences ==
    /\ apc = "call"
    /\ LET modified == MergeOwnerRefs(applyExisting.owners, applyRequired).modified
           patch == PatchBody(applyExisting, applyRequired)
       IN  IF ~modified
           THEN /\ applyErr' = "nil"
                /\ UNCHANGED <<applyCalls, applyLive>>
           ELSE \E answer \in PatchAnswers(applyLive, patch) :
                /\ applyCalls' = Append(applyCalls,
                        [op |-> "patch", answer |-> answer, body |-> patch])
                /\ applyLive' = IF answer = "ok"
                                THEN [applyLive EXCEPT !.owners = patch.owners,
                                                       !.rv = @ + 1]
                                ELSE applyLive
                /\ applyErr' = IF answer = "ok" THEN "nil" ELSE answer
    /\ apc' = "returned"
    /\ UNCHANGED <<applyExisting, applyRequired, executor>>
    /\ UNCHANGED nonApplyVars

NextApply == ApplyOwnerReferences

SpecApply == InitApply /\ [][NextApply]_vars

\* ------------------------------------------------ UpdateManifestWorkStatus
\* retry.DefaultBackoff.Steps: the runs RetryOnConflict gives its function
Steps == 4
\* updates other writers make to the object during one call
MaxOtherWrites == 5

\* update functions: one that sets a condition, one that fails, and one that
\* fails on a status that has a condition of the given type
updateSpokeClusterConditionFn(cond) == [kind |-> "set", cond |-> cond, type |-> ""]
FailingFn == [kind |-> "fail", cond |-> Condition("", "", "", 0), type |-> ""]
FailingOnFn(type) == [kind |-> "failOn", cond |-> Condition("", "", "", 0), type |-> type]
UpdateFns ==
    {updateSpokeClusterConditionFn(Condition("one", "True", "old", 2)),
     updateSpokeClusterConditionFn(Condition("one", "False", "new", 0)),
     FailingFn,
     FailingOnFn("two")}
\* one or two update functions
UpdateFuncLists ==
    {<<f>> : f \in UpdateFns} \cup {<<f, g>> : f \in UpdateFns, g \in UpdateFns}

\* status of the object when the call is made
StartingConditions == {<<>>, <<Condition("one", "True", "old", 1)>>}

\* Update whose error is dropped
Update_neverFails(f, status) ==
    IF f.kind = "set"
    THEN [err |-> "nil", status |-> SetStatusCondition(status, f.cond)]
    ELSE [err |-> "nil", status |-> status]

\* update(newStatus) of one update function
Update(f, status) ==
    IF f.kind = "set"
    THEN [err |-> "nil", status |-> SetStatusCondition(status, f.cond)]
    ELSE IF f.kind = "fail" \/ FindStatusCondition(status, f.type) # 0
    THEN [err |-> "funcError", status |-> status]
    ELSE [err |-> "nil", status |-> status]

\* the loop over updateFuncs from the i-th function on: it returns at the
\* first function that fails
RECURSIVE ApplyUpdateFuncs(_, _, _)
ApplyUpdateFuncs(funcs, status, i) ==
    IF i > Len(funcs) THEN [err |-> "nil", status |-> status]
    ELSE LET r == Update(funcs[i], status)
         IN  IF r.err # "nil" THEN r
             ELSE ApplyUpdateFuncs(funcs, r.status, i + 1)

\* DeepEqual that finds every two statuses different
DeepEqual_never(oldStatus, newStatus) == FALSE

\* equality.Semantic.DeepEqual(oldStatus, newStatus)
DeepEqual(oldStatus, newStatus) == oldStatus = newStatus

\* the object an attempt works on, when the retry does not fetch
AttemptWork_alwaysPassed(n, passed, fetched) == passed

\* the object the n-th call of updateManifestWorkStatus works on: the one
\* passed by the caller, then the one the retry fetched
AttemptWork(n, passed, fetched) == IF n = 1 THEN passed ELSE fetched

\* the answer of client.UpdateStatus: a Conflict for an object of another
\* resourceVersion than the persisted one, else accepted or another error
UpdateStatusAnswers(persisted, work) ==
    IF work.rv # persisted.rv THEN {"conflict"} ELSE {"ok", "error"}

\* the result of an attempt that reports an accepted write as no update
UpdateResult_neverUpdated(answer, updatedManifestWork) ==
    IF answer = "ok"
    THEN [status |-> StatusPtr(updatedManifestWork.status), updated |-> FALSE, err |-> "nil"]
    ELSE [status |-> NilStatus, updated |-> FALSE, err |-> answer]

\* what updateManifestWorkStatus returns after client.UpdateStatus
UpdateResult(answer, updatedManifestWork) ==
    IF answer = "ok"
    THEN [status |-> StatusPtr(updatedManifestWork.status), updated |-> TRUE, err |-> "nil"]
    ELSE [status |-> NilStatus, updated |-> FALSE, err |-> answer]

\* RetryOnConflict without a bound on its runs
RetryOnConflict_unbounded(n, err) ==
    IF err = "nil" THEN "returned"
    ELSE IF n = 1 THEN "get"
    ELSE IF err = "conflict" THEN "get"
    ELSE "returned"

\* where UpdateManifestWorkStatus goes after its n-th attempt returned err:
\* any error of the first attempt starts the retry, whose function runs again
\* after a Conflict, Steps times at most
RetryOnConflict(n, err) ==
    IF err = "nil" THEN "returned"
    ELSE IF n = 1 THEN "get"
    ELSE IF err = "conflict" /\ n - 1 < Steps THEN "get"
    ELSE "returned"

InitStatus ==
    /\ \E c \in StartingConditions :
        /\ store = [status |-> c, rv |-> 1]
        /\ manifestWork = [status |-> c, rv |-> 1]
    /\ fetchedWork = NoWork
    /\ updateFuncs \in UpdateFuncLists
    /\ attempt = 0
    /\ statusCalls = <<>>
    /\ statusRet = NoStatusReturn
    /\ otherWrites = 0
    /\ spc = "update"
    /\ NoPass
    /\ NoValidateCall
    /\ NoMergeCall
    /\ NoApplyCall
    /\ NoEvents
    /\ NoWorkPass

\* one call of updateManifestWorkStatus(ctx, client, manifestWork, updateFuncs...)
updateManifestWorkStatus ==
    /\ spc = "update"
    /\ attempt' = attempt + 1
    /\ LET n == attempt + 1
           work == AttemptWork(n, manifestWork, fetchedWork)
           oldStatus == work.status
           applied == ApplyUpdateFuncs(updateFuncs, oldStatus, 1)
           newStatus == applied.status
       IN  IF applied.err # "nil"
           THEN /\ statusRet' = [status |-> NilStatus, updated |-> FALSE,
                                 err |-> applied.err]
                /\ spc' = RetryOnConflict(n, applied.err)
                /\ UNCHANGED <<store, manifestWork, fetchedWork, statusCalls>>
           ELSE IF DeepEqual(oldStatus, newStatus)
           THEN /\ statusRet' = [status |-> StatusPtr(newStatus), updated |-> FALSE,
                                 err |-> "nil"]
                /\ spc' = "returned"
                /\ UNCHANGED <<store, manifestWork, fetchedWork, statusCalls>>
           ELSE \E answer \in UpdateStatusAnswers(store, work) :
                LET updatedManifestWork ==
                        [status |-> newStatus, rv |-> store.rv + 1]
                    result == UpdateResult(answer, updatedManifestWork)
                IN  /\ statusCalls' = Append(statusCalls,
                            [op |-> "UpdateStatus", answer |-> answer,
                             work |-> [status |-> newStatus, rv |-> work.rv],
                             persisted |-> store])
                    /\ store' = IF answer = "ok" THEN updatedManifestWork ELSE store
                    /\ manifestWork' = IF n = 1
                                       THEN [manifestWork EXCEPT !.status = newStatus]
                                       ELSE manifestWork
                    /\ fetchedWork' = IF n = 1 THEN fetchedWork
                                      ELSE [fetchedWork EXCEPT !.status = newStatus]
                    /\ statusRet' = result
                    /\ spc' = RetryOnConflict(n, result.err)
    /\ UNCHANGED <<updateFuncs, otherWrites, executor>>
    /\ UNCHANGED nonStatusVars

\* client.Get in the function RetryOnConflict runs
RetryGet ==
    /\ spc = "get"
    /\ \E answer \in {"ok", "error"} :
        /\ statusCalls' = Append(statusCalls,
                [op |-> "Get", answer |-> answer,
                 work |-> IF answer = "ok" THEN store ELSE NoWork,
                 persisted |-> store])
        /\ IF answer = "ok"
           THEN /\ fetchedWork' = store
                /\ spc' = "update"
                /\ UNCHANGED statusRet
           ELSE /\ statusRet' = [statusRet EXCEPT !.err = "error"]
                /\ spc' = "returned"
                /\ UNCHANGED fetchedWork
    /\ UNCHANGED <<store, manifestWork, updateFuncs, attempt, otherWrites, executor>>
    /\ UNCHANGED nonStatusVars

\* another writer updates the object: its status gets a condition, or only
\* another part of it changes; either way it gets a new resourceVersion. It
\* acts before an attempt, where it decides the answer of the write; an update
\* between a failed attempt and the Get leaves the same persisted object as
\* one made before that attempt
OtherWriter ==
    /\ spc = "update"
    /\ otherWrites < MaxOtherWrites
    /\ otherWrites' = otherWrites + 1
    /\ \E status \in {store.status,
                       SetStatusCondition(store.status,
                                          Condition("two", "True", "other", 1))} :
        store' = [status |-> status, rv |-> store.rv + 1]
    /\ UNCHANGED <<manifestWork, fetchedWork, updateFuncs, attempt, statusCalls,
                   statusRet, spc, executor>>
    /\ UNCHANGED nonStatusVars

NextStatus ==
    \/ updateManifestWorkStatus
    \/ RetryGet
    \/ OtherWriter

SpecStatus == InitStatus /\ [][NextStatus]_vars

\* UpdateManifestWorkStatus runs on: an attempt and the Get of the retry are
\* steps of one sequential call, with a bounded sleep between the runs
FairSpecStatus ==
    /\ SpecStatus
    /\ WF_vars(updateManifestWorkStatus)
    /\ WF_vars(RetryGet)

\* ------------------------------------------------ manifestworkEventHandler
\* events handled in one run
MaxEvents == 1

WorkApplied == "Applied"
WorkAvailable == "Available"

\* ManifestWorkSpec: its manifests, a nil slice, an empty one, or some
NilManifests == [nil |-> TRUE, items |-> <<>>]
Manifests(items) == [nil |-> FALSE, items |-> items]
WorkSpecs == {NilManifests, Manifests(<<>>), Manifests(<<"cm1">>),
              Manifests(<<"cm1", "cm2">>)}

\* status conditions of a work: Applied True, False or absent, Available
\* True or False
WorkConditions ==
    {a \o <<Condition(WorkAvailable, st, "", 0)>> :
        a \in {<<>>} \cup {<<Condition(WorkApplied, x, "", 0)>> : x \in Statuses},
        st \in Statuses}

\* the objects an event carries: a ManifestWork, or an object of another type
NotAWork == [isWork |-> FALSE, Name |-> "", Spec |-> NilManifests, Conditions |-> <<>>]
Works ==
    {[isWork |-> TRUE, Name |-> "work1", Spec |-> sp, Conditions |-> c] :
        sp \in WorkSpecs, c \in WorkConditions}
EventObjects == Works \cup {NotAWork}

\* v1helpers.IsConditionTrue that takes a condition that is present for true
IsConditionTrue_presentIsTrue(conds, type) ==
    \E k \in 1..Len(conds) : conds[k].Type = type

\* v1helpers.IsConditionTrue
IsConditionTrue(conds, type) ==
    \E k \in 1..Len(conds) : conds[k].Type = type /\ conds[k].Status = "True"

\* json.Marshal of a ManifestWorkSpec: `manifests` is omitted when empty
Marshal(sp) ==
    IF Len(sp.items) = 0 THEN <<"{", "}">>
    ELSE <<"{", "manifests">> \o sp.items \o <<"}">>

\* sha256.Sum256
Sum256(bytes) == <<"sha256">> \o bytes

\* manifestWorkSpecEqual that compares nothing
manifestWorkSpecEqual_always(newSpec, oldSpec) == TRUE

manifestWorkSpecEqual(newSpec, oldSpec) ==
    LET newHash == Sum256(Marshal(newSpec))
        oldHash == Sum256(Marshal(oldSpec))
    IN  newHash = oldHash

\* the names OnAdd passes to enqueueFunc
OnAddEnqueues(obj) == IF obj.isWork THEN <<obj.Name>> ELSE <<>>

\* the names OnUpdate passes to enqueueFunc
OnUpdateEnqueues(oldObj, newObj) ==
    IF ~(newObj.isWork /\ oldObj.isWork) THEN <<>>
    ELSE IF \/ ~IsConditionTrue(newObj.Conditions, WorkAvailable)
            \/ ~IsConditionTrue(newObj.Conditions, WorkApplied)
    THEN <<newObj.Name>>
    ELSE IF ~manifestWorkSpecEqual(newObj.Spec, oldObj.Spec)
    THEN <<newObj.Name>>
    ELSE <<>>

Event(kind, oldObj, newObj, enqueued) ==
    [kind |-> kind, old |-> oldObj, new |-> newObj, enqueued |-> enqueued]

InitHandler ==
    /\ handled = <<>>
    /\ queue = <<>>
    /\ NoPass
    /\ NoValidateCall
    /\ NoMergeCall
    /\ NoApplyCall
    /\ NoStatusCall
    /\ NoWorkPass

OnAdd ==
    /\ Len(handled) < MaxEvents
    /\ \E obj \in EventObjects :
        /\ queue' = queue \o OnAddEnqueues(obj)
        /\ handled' = Append(handled, Event("add", NotAWork, obj, OnAddEnqueues(obj)))
    /\ UNCHANGED executor
    /\ UNCHANGED nonHandlerVars

OnUpdate ==
    /\ Len(handled) < MaxEvents
    /\ \E oldObj \in EventObjects, newObj \in EventObjects :
        /\ queue' = queue \o OnUpdateEnqueues(oldObj, newObj)
        /\ handled' = Append(handled, Event("update", oldObj, newObj,
                                            OnUpdateEnqueues(oldObj, newObj)))
    /\ UNCHANGED executor
    /\ UNCHANGED nonHandlerVars

OnDelete ==
    /\ Len(handled) < MaxEvents
    /\ \E obj \in EventObjects :
        /\ queue' = queue
        /\ handled' = Append(handled, Event("delete", obj, NotAWork, <<>>))
    /\ UNCHANGED executor
    /\ UNCHANGED nonHandlerVars

NextHandler ==
    \/ OnAdd
    \/ OnUpdate
    \/ OnDelete

SpecHandler == InitHandler /\ [][NextHandler]_vars

\* ------------------------------------------------- applying a work's manifests
\* the manifests of the work: two configmaps
WorkManifests == <<"cm1", "cm2">>
ConfigMaps == [Group |-> "", Resource |-> "configmaps"]

\* the create call of the apply step: made only when Validate returned nil
CreateAnswers(err) == IF err = ReturnNil THEN {"ok", "error"} ELSE {"none"}

\* Applied condition of one manifest
AppliedCondition(err, answer) ==
    IF err = ReturnNil /\ answer = "ok" THEN "True" ELSE "False"

\* Applied condition of the work: True when it is True for every manifest
AggregateApplied(log) ==
    IF \A k \in 1..Len(log) : log[k].applied = "True" THEN "True" ELSE "False"

InitWork ==
    /\ spokeObjects = {}
    /\ workLog = <<>>
    /\ workApplied = ""
    /\ executor = "ServiceAccount"
    /\ action = "Apply"
    /\ gvr = ConfigMaps
    /\ config = "set"
    /\ reviewIdx = 0
    /\ authCalls = <<>>
    /\ ret = NoReturn
    /\ vpc = "start"
    /\ cluster = [i \in ResIdx |-> NoObject]
    /\ idx = Len(resources) + 1
    /\ pc = "done"
    /\ u = NoObject
    /\ resourcesPendingFinalization = <<>>
    /\ errs = <<>>
    /\ events = <<>>
    /\ calls = <<>>
    /\ envSteps = 0
    /\ NoMergeCall
    /\ NoApplyCall
    /\ NoStatusCall
    /\ NoEvents

\* the apply step for the manifest Validate has returned for, and the start
\* of the validation of the next manifest
ApplyManifest ==
    /\ vpc = "returned"
    /\ Len(workLog) < Len(WorkManifests)
    /\ LET m == WorkManifests[Len(workLog) + 1] IN
       \E answer \in CreateAnswers(ret) :
        /\ spokeObjects' = IF answer = "ok" THEN spokeObjects \cup {m}
                           ELSE spokeObjects
        /\ workLog' = Append(workLog,
                [manifest |-> m, reviews |-> authCalls, err |-> ret,
                 create |-> answer, applied |-> AppliedCondition(ret, answer)])
    /\ reviewIdx' = 0
    /\ authCalls' = <<>>
    /\ ret' = NoReturn
    /\ vpc' = IF Len(workLog) + 1 < Len(WorkManifests) THEN "start" ELSE "idle"
    /\ UNCHANGED <<executor, action, gvr, config, workApplied>>
    /\ UNCHANGED <<gcVars, mergeVars, applyVars, statusVars, handlerVars>>

\* the status of the work is set after every manifest was handled
SetWorkApplied ==
    /\ Len(workLog) = Len(WorkManifests)
    /\ workApplied = ""
    /\ workApplied' = AggregateApplied(workLog)
    /\ UNCHANGED <<executor, spokeObjects, workLog>>
    /\ UNCHANGED <<gcVars, authVars, mergeVars, applyVars, statusVars, handlerVars>>

NextWork ==
    \/ sarValidatorValidate
    \/ validateBySubjectAccessReviews
    \/ ApplyManifest
    \/ SetWorkApplied

SpecWork == InitWork /\ [][NextWork]_vars

\* ----------------------------------------------------- reading the calls
CallIdx(op, r) == {k \in 1..Len(calls) : calls[k].op = op /\ calls[k].res = r}
NumCalls(op, r) == Cardinality(CallIdx(op, r))
TheCall(op, r) == calls[CHOOSE k \in CallIdx(op, r) : TRUE]
\* the pass has finished with resources[r]
Processed(r) == idx > r
InPending(r) ==
    \E k \in 1..Len(resourcesPendingFinalization) : resourcesPendingFinalization[k] = r
ErrIdx(r) == {k \in 1..Len(errs) : errs[k].res = r}
\* Get returned an object for resources[r]
WasFetched(r) == CallIdx("get", r) # {} /\ TheCall("get", r).answer = "ok"
Fetched(r) == TheCall("get", r).live
ValidateAnswer(r) ==
    IF CallIdx("validate", r) = {} THEN "none" ELSE TheCall("validate", r).answer
\* an owner list without the entries that carry the UID of the agent's owner
StripOwner(l) == SelectSeq(l, LAMBDA o : o.uid # owner.uid)
HasOtherOwner(l) == \E i \in 1..Len(l) : l[i].uid # owner.uid

\* ------------------------------------------------------------------ C1
\* C1: for a resource whose delete authorization is denied, the pass issues
\* no delete call.
C1_DeniedIssuesNoDelete ==
    \A r \in ResIdx :
        ValidateAnswer(r) = "forbidden" => CallIdx("delete", r) = {}

\* ------------------------------------------------------------------ C2
\* C2 as stated: every fetched object owned by the agent and by another owner
\* gets exactly one patch carrying the fetched owner list without the agent's
\* entry, no delete call and no entry in resourcesPendingFinalization.
C2_SharedOwnershipAlwaysPatched ==
    \A r \in ResIdx :
        (/\ Processed(r)
         /\ WasFetched(r)
         /\ IsOwnedBy(owner, Fetched(r).owners)
         /\ HasOtherOwner(Fetched(r).owners))
        => /\ NumCalls("patch", r) = 1
           /\ TheCall("patch", r).body.owners = StripOwner(Fetched(r).owners)
           /\ NumCalls("delete", r) = 0
           /\ ~InPending(r)

\* C2 amended: the same, for the objects whose delete-authorization check did
\* not fail with an error other than a denial.
C2_SharedOwnershipPatchedUnlessCheckFails ==
    \A r \in ResIdx :
        (/\ Processed(r)
         /\ WasFetched(r)
         /\ IsOwnedBy(owner, Fetched(r).owners)
         /\ HasOtherOwner(Fetched(r).owners)
         /\ ValidateAnswer(r) # "error")
        => /\ NumCalls("patch", r) = 1
           /\ TheCall("patch", r).body.owners = StripOwner(Fetched(r).owners)
           /\ NumCalls("delete", r) = 0
           /\ ~InPending(r)

C2_Witness ==
    \E r \in ResIdx :
        /\ Processed(r)
        /\ WasFetched(r)
        /\ IsOwnedBy(owner, Fetched(r).owners)
        /\ HasOtherOwner(Fetched(r).owners)
        /\ NumCalls("patch", r) = 1
        /\ TheCall("patch", r).answer = "ok"
        /\ cluster[r].owners = StripOwner(Fetched(r).owners)

\* ------------------------------------------------------------------ C3
\* C3 as stated: a resource whose fetched object carries another UID than the
\* recorded one is in neither output list and gets neither a patch nor a
\* delete call, whatever the owner list.
C3_UIDMismatchNoCallsAnyOwners ==
    \A r \in ResIdx :
        (Processed(r) /\ WasFetched(r) /\ Fetched(r).uid # resources[r].UID)
        => /\ ~InPending(r)
           /\ ErrIdx(r) = {}
           /\ NumCalls("patch", r) = 0
           /\ NumCalls("delete", r) = 0

\* C3 amended: such a resource never gets a delete call and is never pending
\* finalization; it is in neither list and gets no patch either when the
\* object has at most one owner and the authorization check does not fail.
C3_UIDMismatchDropped ==
    \A r \in ResIdx :
        (Processed(r) /\ WasFetched(r) /\ Fetched(r).uid # resources[r].UID)
        => /\ ~InPending(r)
           /\ NumCalls("delete", r) = 0
           /\ (Len(Fetched(r).owners) <= 1 /\ ValidateAnswer(r) # "error")
                => (ErrIdx(r) = {} /\ NumCalls("patch", r) = 0)

C3_Witness ==
    \E r \in ResIdx :
        /\ Processed(r)
        /\ WasFetched(r)
        /\ Fetched(r).uid # resources[r].UID
        /\ Fetched(r).owners = <<owner>>
        /\ ~Fetched(r).deletionTimestamp
        /\ ValidateAnswer(r) \in {"nil", "forbidden"}

\* ------------------------------------------------------------------ C4
\* C4: every delete call carries the recorded UID as precondition and is the
\* only delete call for its resource; a delete call that finds a later
\* instance of the object (another UID) is answered Conflict, leaves that
\* instance as it was, and its resource is in neither output list.
C4_DeletePreconditionSparesNewInstance ==
    \A k \in 1..Len(calls) :
        calls[k].op = "delete" =>
            LET c == calls[k]
                r == calls[k].res
            IN  /\ c.body.uid = resources[r].UID
                /\ NumCalls("delete", r) = 1
                /\ (c.live.present /\ c.live.uid # resources[r].UID)
                    => /\ c.answer = "conflict"
                       /\ cluster[r] = c.live
                       /\ ~InPending(r)
                       /\ ErrIdx(r) = {}

C4_Witness ==
    \E r \in ResIdx :
        /\ Processed(r)
        /\ NumCalls("delete", r) = 1
        /\ Fetched(r).uid = resources[r].UID
        /\ TheCall("delete", r).live.present
        /\ TheCall("delete", r).live.uid # resources[r].UID

\* ------------------------------------------------------------------ C5
\* C5: a delete of the pass takes effect only on an object that has, at that
\* moment, no owner besides the agent's.
C5_DeleteOnlyWithoutOtherOwner ==
    \A k \in 1..Len(calls) :
        (calls[k].op = "delete" /\ calls[k].answer = "ok")
            => ~HasOtherOwner(calls[k].live.owners)

C7_ValidateBeforeMutation ==
    \A k \in 1..Len(calls) :
        calls[k].op \in {"patch", "delete"}
            => \E j \in 1..(k - 1) :
                    calls[j].op = "validate" /\ calls[j].res = calls[k].res

C7_Witness ==
    \E r \in ResIdx :
        /\ NumCalls("delete", r) = 1
        /\ ValidateAnswer(r) = "nil"
        /\ executor = "ServiceAccount"

\* ------------------------------------------------------------------ C8
\* C8: a denial is checked once, appends no error, and does not stop the
\* patch that strips the agent's entry from an object with other owners.
C8_DenialIsSoftFailure ==
    \A r \in ResIdx :
        /\ NumCalls("validate", r) <= 1
        /\ ValidateAnswer(r) = "forbidden"
            => /\ \A k \in ErrIdx(r) : errs[k].op # "validate"
               /\ (Processed(r) /\ HasOtherOwner(Fetched(r).owners))
                    => (/\ NumCalls("patch", r) = 1
                        /\ TheCall("patch", r).body.owners = StripOwner(Fetched(r).owners))

C8_Witness ==
    \E r \in ResIdx :
        /\ Processed(r)
        /\ ValidateAnswer(r) = "forbidden"
        /\ HasOtherOwner(Fetched(r).owners)
        /\ NumCalls("patch", r) = 1
        /\ TheCall("patch", r).answer = "ok"
        /\ ErrIdx(r) = {}

\* ------------------------------------------------------------------ C9
\* C9: a resource whose Get answers NotFound is in neither output list and
\* gets no ValidateDelete, patch or delete call.
C9_NotFoundIsReconciled ==
    \A r \in ResIdx :
        (CallIdx("get", r) # {} /\ TheCall("get", r).answer = "notfound")
        => /\ Processed(r)
           /\ ~InPending(r)
           /\ ErrIdx(r) = {}
           /\ NumCalls("validate", r) = 0
           /\ NumCalls("patch", r) = 0
           /\ NumCalls("delete", r) = 0

C9_Witness ==
    \E r \in ResIdx :
        /\ Processed(r)
        /\ TheCall("get", r).answer = "notfound"
        /\ Len(calls) > 1

\* ------------------------------------------------------------------ C10
\* a Get error other than NotFound, or a ValidateDelete error other than a
\* denial
Failed(r) ==
    \/ CallIdx("get", r) # {} /\ TheCall("get", r).answer = "error"
    \/ ValidateAnswer(r) = "error"

\* what the calls made for resources[r] alone say about its disposition
OwnPending(r) ==
    \/ \E k \in CallIdx("delete", r) : calls[k].answer = "ok"
    \/ /\ ValidateAnswer(r) \in {"nil", "forbidden"}
       /\ Len(Fetched(r).owners) <= 1
       /\ Fetched(r).uid = resources[r].UID
       /\ Fetched(r).deletionTimestamp
OwnErrors(r) ==
    {k \in 1..Len(calls) :
        /\ calls[k].res = r
        /\ \/ calls[k].answer = "error"
           \/ calls[k].op = "patch" /\ calls[k].answer # "ok"}

\* C10: a failed resource has exactly one error and no patch or delete call;
\* the pass goes on: every resource it has passed was fetched once, and a
\* resource after a failed one has the disposition its own calls give it.
C10_FailureDoesNotAbortPass ==
    /\ \A r \in ResIdx : Processed(r) => NumCalls("get", r) = 1
    /\ \A r \in ResIdx :
        (Processed(r) /\ Failed(r))
        => /\ Cardinality(ErrIdx(r)) = 1
           /\ ~InPending(r)
           /\ NumCalls("patch", r) = 0
           /\ NumCalls("delete", r) = 0
    /\ \A r1, r2 \in ResIdx :
        (r1 < r2 /\ Failed(r1) /\ Processed(r2))
        => /\ InPending(r2) <=> OwnPending(r2)
           /\ Cardinality(ErrIdx(r2)) = Cardinality(OwnErrors(r2))

C10_Witness ==
    /\ pc = "done"
    /\ TheCall("get", 1).answer = "error"
    /\ ValidateAnswer(2) = "nil"
    /\ NumCalls("delete", 2) = 1
    /\ TheCall("delete", 2).answer = "ok"
    /\ InPending(2)
    /\ Len(errs) = 1

\* ------------------------------------------------------------------ C11
\* C11: a resource whose fetched object is not owned by the agent gets no
\* ValidateDelete, patch or delete call and is in neither output list.
C11_NotOwnedIsSkipped ==
    \A r \in ResIdx :
        (Processed(r) /\ WasFetched(r) /\ ~IsOwnedBy(owner, Fetched(r).owners))
        => /\ NumCalls("validate", r) = 0
           /\ NumCalls("patch", r) = 0
           /\ NumCalls("delete", r) = 0
           /\ ~InPending(r)
           /\ ErrIdx(r) = {}

C11_Witness ==
    \E r \in ResIdx :
        /\ Processed(r)
        /\ WasFetched(r)
        /\ Fetched(r).owners = <<ownerB>>
        /\ Fetched(r).uid = resources[r].UID
        /\ ~Fetched(r).deletionTimestamp

\* ------------------------------------------------------------------ C12
\* the fetched object of resources[r] has the agent as its only owner, the
\* recorded UID and a deletion timestamp
FetchedTerminating(r) ==
    /\ WasFetched(r)
    /\ Fetched(r).owners = <<owner>>
    /\ Fetched(r).uid = resources[r].UID
    /\ Fetched(r).deletionTimestamp

\* C12 as stated: such a resource is in resourcesPendingFinalization and
\* gets no delete call.
C12_TerminatingAlwaysPending ==
    \A r \in ResIdx :
        (Processed(r) /\ FetchedTerminating(r))
        => (InPending(r) /\ NumCalls("delete", r) = 0)

\* C12 amended: such a resource never gets a delete call, and it is in
\* resourcesPendingFinalization when its delete-authorization check does not
\* fail with an error other than a denial.
C12_TerminatingPendingUnlessCheckFails ==
    \A r \in ResIdx :
        (Processed(r) /\ FetchedTerminating(r))
        => /\ NumCalls("delete", r) = 0
           /\ ValidateAnswer(r) # "error" => (InPending(r) /\ ErrIdx(r) = {})

C12_Witness ==
    \E r \in ResIdx :
        /\ Processed(r)
        /\ FetchedTerminating(r)
        /\ ValidateAnswer(r) \in {"nil", "forbidden"}
        /\ InPending(r)

\* ------------------------------------------------------------------ C13
\* C13: a resource gets at most one delete call, and the answer decides:
\* NotFound or Conflict - neither list; another error - errs only; success -
\* resourcesPendingFinalization only.
C13_DeleteAnswerFixesDisposition ==
    \A r \in ResIdx :
        /\ NumCalls("delete", r) <= 1
        /\ (Processed(r) /\ NumCalls("delete", r) = 1)
            => LET answer == TheCall("delete", r).answer
               IN  /\ answer \in {"notfound", "conflict"}
                        => (~InPending(r) /\ ErrIdx(r) = {})
                   /\ answer = "error"
                        => (~InPending(r) /\ Cardinality(ErrIdx(r)) = 1)
                   /\ answer = "ok"
                        => (InPending(r) /\ ErrIdx(r) = {})
                   /\ answer \in {"notfound", "conflict", "error", "ok"}

C13_Witness ==
    \E r \in ResIdx :
        /\ Processed(r)
        /\ NumCalls("delete", r) = 1
        /\ TheCall("delete", r).answer = "conflict"
        /\ ~InPending(r)
        /\ ErrIdx(r) = {}

\* ------------------------------------------------------------------ C14
EventCount(r) == Cardinality({k \in 1..Len(events) : events[k] = r})

\* C14: a ResourceDeleted event is recorded once for a resource whose delete
\* call succeeded and for no other resource; in particular there is none for
\* a resource whose delete was denied.
C14_EventOnlyForPermittedDelete ==
    \A r \in ResIdx :
        /\ EventCount(r) =
                IF \E k \in CallIdx("delete", r) : calls[k].answer = "ok" THEN 1 ELSE 0
        /\ ValidateAnswer(r) = "forbidden" => EventCount(r) = 0

\* ------------------------------------------------------------------ C15
\* a call of the pass for resources[r] was answered with an error
CallFailed(r) ==
    \E k \in 1..Len(calls) : calls[k].res = r /\ calls[k].answer = "error"

C15_PendingInEveryPassWithoutFailure ==
    \A r \in ResIdx :
        (pc = "done" /\ WasFetched(r) /\ ValidateAnswer(r) = "nil" /\ ~CallFailed(r))
        => (InPending(r) /\ ErrIdx(r) = {})

\* the output of a pass for a resource is fixed by the answers of the calls
\* of that pass
C15_ResultFromThisPass ==
    \A r \in ResIdx :
        pc = "done"
        => /\ InPending(r) <=>
                /\ WasFetched(r)
                /\ ValidateAnswer(r) \in {"nil", "forbidden"}
                /\ \/ Fetched(r).deletionTimestamp
                   \/ \E k \in CallIdx("delete", r) : calls[k].answer = "ok"
           /\ (ErrIdx(r) # {}) <=> CallFailed(r)
           /\ Cardinality({k \in 1..Len(resourcesPendingFinalization) :
                                resourcesPendingFinalization[k] = r}) <= 1

\* once the object of a resource is gone, a pass ends with the resource in
\* neither list
C15_GoneIsEventuallyDropped ==
    \A r \in ResIdx :
        (~cluster[r].present) ~> (pc = "done" /\ ~InPending(r) /\ ErrIdx(r) = {})

Reviews == SelectSeq(authCalls, LAMBDA c : c.op = "review")
DryRuns == SelectSeq(authCalls, LAMBDA c : c.op = "dryrun")
ReviewAllowed(v) ==
    \E k \in 1..Len(Reviews) : Reviews[k].verb = v /\ Reviews[k].answer = "allowed"
ReviewDenied == \E k \in 1..Len(Reviews) : Reviews[k].answer = "denied"
ReviewFailed == \E k \in 1..Len(Reviews) : Reviews[k].answer = "error"
\* the verb set of an action, in order
VerbSet(act) ==
    IF act = "Apply" THEN <<"create", "update", "patch", "get">> ELSE <<"delete">>
AllVerbsAllowed(act) == \A k \in 1..Len(VerbSet(act)) : ReviewAllowed(VerbSet(act)[k])
\* one of the four RBAC-defining resource kinds
IsRBACKind(target) ==
    /\ target.Group = "rbac.authorization.k8s.io"
    /\ target.Resource \in {"roles", "rolebindings", "clusterroles",
                            "clusterrolebindings"}
Allow == [kind |-> "nil", RequeueTime |-> 0]
NotAllowed60 == [kind |-> "NotAllowedError", RequeueTime |-> 60]

C17_ReviewsInOrderStopAtDenial ==
    /\ Len(Reviews) <= Len(VerbSet(action))
    /\ \A k \in 1..Len(Reviews) :
        /\ Reviews[k].verb = VerbSet(action)[k]
        /\ k < Len(Reviews) => Reviews[k].answer = "allowed"

C17_Witness ==
    /\ vpc = "returned"
    /\ action = "Apply"
    /\ Len(Reviews) = 1
    /\ Reviews[1].verb = "create"
    /\ Reviews[1].answer = "denied"
    /\ ret = NotAllowed60

\* ------------------------------------------------------------------ C18
\* a dry-run create, when there is one, is the last call and follows an
\* allowed review of every verb
DryRunOnceAfterReviews ==
    /\ Len(DryRuns) <= 1
    /\ Len(DryRuns) = 1
        => /\ authCalls[Len(authCalls)].op = "dryrun"
           /\ Len(Reviews) = Len(VerbSet(action))
           /\ AllVerbsAllowed(action)

\* C18 as stated: a returned call issued a dry-run create exactly when the
\* action is Apply, the target is one of the four RBAC kinds and every review
\* answered allowed; it is issued once, after the reviews.
C18_DryRunIffGuardedAndAllowed ==
    /\ DryRunOnceAfterReviews
    /\ vpc = "returned"
        => (Len(DryRuns) = 1 <=>
                /\ action = "Apply"
                /\ IsRBACKind(gvr)
                /\ Len(Reviews) = Len(VerbSet(action))
                /\ AllVerbsAllowed(action))

\* C18 amended: the same, when in addition the impersonating client is
\* created without an error.
C18_DryRunIffGuardedAllowedAndClient ==
    /\ DryRunOnceAfterReviews
    /\ vpc = "returned"
        => (Len(DryRuns) = 1 <=>
                /\ action = "Apply"
                /\ IsRBACKind(gvr)
                /\ Len(Reviews) = Len(VerbSet(action))
                /\ AllVerbsAllowed(action)
                /\ config # "nil")

C18_Witness ==
    /\ vpc = "returned"
    /\ action = "Apply"
    /\ gvr = [Group |-> "rbac.authorization.k8s.io", Resource |-> "clusterroles"]
    /\ Len(Reviews) = 4
    /\ Len(DryRuns) = 1
    /\ authCalls[5].op = "dryrun"

C20_NilExecutorAlwaysAllowed ==
    executor = "nil"
    => /\ authCalls = <<>>
       /\ vpc \in {"start", "returned"}
       /\ vpc = "returned" => ret = Allow

C20_Witness ==
    /\ executor = "nil"
    /\ vpc = "returned"
    /\ action = "Apply"
    /\ IsRBACKind(gvr)
    /\ ret = Allow
    /\ authCalls = <<>>

\* ------------------------------------------------------------------ C21
\* C21: for an executor whose subject is not a service account, or whose
\* service account is nil, Validate issues no review and no dry-run create and
\* returns an error that is neither nil nor a NotAllowedError and carries no
\* requeue time.
C21_InvalidExecutorIsPlainError ==
    executor \in {"User", "ServiceAccountNil"}
    => /\ authCalls = <<>>
       /\ vpc \in {"start", "returned"}
       /\ vpc = "returned" => ret = [kind |-> "error", RequeueTime |-> 0]

C21_Witness ==
    /\ executor = "ServiceAccountNil"
    /\ action = "Apply"
    /\ vpc = "returned"
    /\ ret = [kind |-> "error", RequeueTime |-> 0]
    /\ authCalls = <<>>

\* ------------------------------------------------------------------ C22
\* C22: no verb is reviewed twice in a call, and a failed review is the last
\* call of Validate, which returns the error and not a NotAllowedError.
C22_NoRetryFailureReturned ==
    /\ \A j, k \in 1..Len(Reviews) : Reviews[j].verb = Reviews[k].verb => j = k
    /\ \A k \in 1..Len(authCalls) :
        authCalls[k].answer = "error" /\ authCalls[k].op = "review"
        => /\ k = Len(authCalls)
           /\ vpc = "returned"
           /\ ret = [kind |-> "error", RequeueTime |-> 0]

C22_Witness ==
    /\ vpc = "returned"
    /\ action = "Apply"
    /\ IsRBACKind(gvr)
    /\ Len(authCalls) = 2
    /\ authCalls[1].answer = "allowed"
    /\ authCalls[2] = [op |-> "review", verb |-> "update", answer |-> "error"]
    /\ ret = [kind |-> "error", RequeueTime |-> 0]

\* ------------------------------------- reading MergeManifestConditions
MergeReturned == mpc = "returned"
FreshIdx == 1..Len(newConditionsAtCall)
\* existing records with the exact key of the i-th new record
ExactMatches(i) ==
    {k \in 1..Len(conditions) :
        conditions[k].ResourceMeta = newConditionsAtCall[i].ResourceMeta}
\* existing records with its identity, whatever the ordinal
IdentityMatches(i) ==
    {k \in 1..Len(conditions) :
        conditions[k].ResourceMeta.Resource =
            newConditionsAtCall[i].ResourceMeta.Resource}
\* the existing record the i-th new record is merged with, or 0
MatchOf(i) ==
    IF ExactMatches(i) # {} THEN CHOOSE k \in ExactMatches(i) : TRUE
    ELSE IF /\ newConditionsAtCall[i].ResourceMeta.Resource # ""
            /\ Cardinality(IdentityMatches(i)) = 1
    THEN CHOOSE k \in IdentityMatches(i) : TRUE
    ELSE 0
\* the conditions of a type in a list of conditions
OfType(conds, type) == SelectSeq(conds, LAMBDA c : c.Type = type)
HasType(conds, type) == OfType(conds, type) # <<>>

\* ------------------------------------------------------------------ C23
\* C23: in the output record of a matched new record, a condition that both
\* records have with the same status carries the transition time of the
\* existing record, and a condition of the existing record gets another
\* transition time only when the new record has it with another status.
C23_TimestampStable ==
    MergeReturned =>
    \A i \in FreshIdx :
        MatchOf(i) # 0 =>
        LET old == conditions[MatchOf(i)].Conditions
            new == newConditionsAtCall[i].Conditions
            out == merged[i].Conditions
        IN  \A t \in Types :
                HasType(old, t) =>
                /\ Len(OfType(out, t)) = 1
                /\ (HasType(new, t) /\ OfType(new, t)[1].Status = OfType(old, t)[1].Status)
                    => OfType(out, t)[1].LastTransitionTime =
                            OfType(old, t)[1].LastTransitionTime
                /\ OfType(out, t)[1].LastTransitionTime #
                        OfType(old, t)[1].LastTransitionTime
                    => (HasType(new, t)
                        /\ OfType(new, t)[1].Status # OfType(old, t)[1].Status)

C23_Witness ==
    /\ MergeReturned
    /\ Len(newConditionsAtCall) = 1
    /\ MatchOf(1) = 1
    /\ ExactMatches(1) = {}
    /\ conditions[1].Conditions = <<Condition("one", "False", "old", 1)>>
    /\ newConditionsAtCall[1].Conditions = <<Condition("one", "False", "new", 2)>>
    /\ merged[1].Conditions = <<Condition("one", "False", "new", 1)>>

\* ------------------------------------------------------------------ C24
\* C24: merging a list of manifest conditions with itself returns the list,
\* every transition time included.
C24_MergeIdempotent ==
    (MergeReturned /\ newConditionsAtCall = conditions) => merged = conditions

C24_Witness ==
    /\ MergeReturned
    /\ newConditionsAtCall = conditions
    /\ Len(conditions) = 1
    /\ Len(conditions[1].Conditions) = 2
    /\ conditions[1].Conditions[1].LastTransitionTime = 1
    /\ conditions[1].Conditions[2].LastTransitionTime = 2
    /\ merged = conditions

\* ------------------------------------------------------------------ C25
\* C25: the output has one record for each new record, in the same order and
\* with its resource meta; an existing record whose identity no new record
\* has is not in the output.
C25_OutputFollowsFresh ==
    MergeReturned =>
        /\ Len(merged) = Len(newConditionsAtCall)
        /\ \A i \in FreshIdx :
            merged[i].ResourceMeta = newConditionsAtCall[i].ResourceMeta
        /\ \A k \in 1..Len(conditions) :
            (\A i \in FreshIdx : k \notin IdentityMatches(i))
            => \A j \in 1..Len(merged) :
                merged[j].ResourceMeta.Resource # conditions[k].ResourceMeta.Resource

C25_Witness ==
    /\ MergeReturned
    /\ Len(conditions) = 2
    /\ Len(newConditionsAtCall) = 2
    /\ IdentityMatches(1) = {}
    /\ IdentityMatches(2) = {2}
    /\ newConditionsAtCall[1].ResourceMeta.Ordinal = 1
    /\ merged[1].ResourceMeta = newConditionsAtCall[1].ResourceMeta
    /\ merged[2].ResourceMeta = newConditionsAtCall[2].ResourceMeta

\* ------------------------------------------------------------------ C26
\* the record as a brand-new one: every transition time set to Now
BrandNew(record) ==
    [ResourceMeta |-> record.ResourceMeta,
     StatusFeedbacks |-> record.StatusFeedbacks,
     Conditions |-> [j \in 1..Len(record.Conditions) |->
                        [Type |-> record.Conditions[j].Type,
                         Status |-> record.Conditions[j].Status,
                         Reason |-> record.Conditions[j].Reason,
                         LastTransitionTime |-> MaxTime + 1]]]

C27_ExactThenOrdinalFree ==
    MergeReturned =>
    \A i \in FreshIdx :
        MatchOf(i) # 0 =>
            /\ merged[i].ResourceMeta = newConditionsAtCall[i].ResourceMeta
            /\ merged[i].StatusFeedbacks = conditions[MatchOf(i)].StatusFeedbacks

C27_Witness ==
    /\ MergeReturned
    /\ Len(conditions) = 2
    /\ Len(newConditionsAtCall) = 2
    /\ ExactMatches(1) = {}
    /\ IdentityMatches(1) = {1}
    /\ merged[1].ResourceMeta.Ordinal # conditions[1].ResourceMeta.Ordinal
    /\ merged[1].StatusFeedbacks = conditions[1].StatusFeedbacks
    /\ ExactMatches(2) = {2}
    /\ merged[2].StatusFeedbacks = conditions[2].StatusFeedbacks
    /\ merged[1].StatusFeedbacks # merged[2].StatusFeedbacks

C29_InputsUntouched ==
    MergeReturned => newConditions = newConditionsAtCall

\* ------------------------------------------------------------------ C30
\* C30: a new record without an exact match and without an existing record of
\* its identity is output as it was passed, but with every transition time
\* set to Now.
C30_UnmatchedStampedNow ==
    MergeReturned =>
    \A i \in FreshIdx :
        (ExactMatches(i) = {} /\ IdentityMatches(i) = {})
        => merged[i] = BrandNew(newConditionsAtCall[i])

C30_Witness ==
    /\ MergeReturned
    /\ Len(newConditionsAtCall) = 1
    /\ ExactMatches(1) = {}
    /\ IdentityMatches(1) = {}
    /\ Len(conditions) = 1
    /\ Len(newConditionsAtCall[1].Conditions) = 2
    /\ newConditionsAtCall[1].Conditions[1].LastTransitionTime = 1
    /\ newConditionsAtCall[1].Conditions[2].LastTransitionTime = 0
    /\ merged[1] = BrandNew(newConditionsAtCall[1])

\* ------------------------------------------------------------------ C37
\* the entries of a sequence of resource indices are in the order of
\* `resources`, none twice
Subsequence(l) == \A j, k \in 1..Len(l) : j < k => l[j] < l[k]

\* C37: at every point of a pass, resourcesPendingFinalization holds entries
\* of `resources` in their relative order with nothing added, a resource has
\* at most one entry in it and at most one error, and no resource has both.
C37_PendingAndErrorsDisjoint ==
    /\ \A k \in 1..Len(resourcesPendingFinalization) :
        resourcesPendingFinalization[k] \in ResIdx
    /\ Subsequence(resourcesPendingFinalization)
    /\ \A r \in ResIdx :
        /\ Cardinality({k \in 1..Len(resourcesPendingFinalization) :
                            resourcesPendingFinalization[k] = r}) <= 1
        /\ Cardinality(ErrIdx(r)) <= 1
        /\ ~(InPending(r) /\ ErrIdx(r) # {})
    /\ \A k \in 1..Len(errs) : errs[k].res \in ResIdx

\* a finished pass with one resource pending and an error for the other
C37_Witness ==
    /\ pc = "done"
    /\ resourcesPendingFinalization = <<2>>
    /\ ErrIdx(1) # {}
    /\ NumCalls("delete", 1) = 1
    /\ NumCalls("delete", 2) = 1
    /\ TheCall("delete", 1).answer = "error"
    /\ TheCall("delete", 2).answer = "ok"

\* ------------------------------------------------------------------ C35
\* a condition without its transition time
Content(c) == [Type |-> c.Type, Status |-> c.Status, Reason |-> c.Reason]
\* the conditions of newConds whose type conds does not have, in their order
Additions(conds, newConds) == SelectSeq(newConds, LAMBDA c : ~HasType(conds, c.Type))

ApplyReturned == apc = "returned"
\* requiredOwner asks for a removal
IsRemoval(required) == required.uid[Len(required.uid)] = "-"
\* the list has an entry for the owner that `required` names
Names(l, required) == \E k \in 1..Len(l) : l[k].name = required.name
\* the list without the entries for that owner
Without(l, required) == SelectSeq(l, LAMBDA o : o.name # required.name)

\* C36: ApplyOwnerReferences makes one Patch call, with the merged owner list
\* in the patch, when the merge changes the owner list of the object passed,
\* and no call when it does not.  An absent owner to add is appended, a
\* present owner to remove is taken out; adding an owner the list already has
\* as required, or removing an absent one, makes no call.
C36_OnePatchIffMergeChanges ==
    ApplyReturned =>
    LET l == applyExisting.owners
        mergedOwners == MergeOwnerRefs(l, applyRequired).owners
    IN  /\ mergedOwners # l
            => /\ Len(applyCalls) = 1
               /\ applyCalls[1].op = "patch"
               /\ applyCalls[1].body.owners = mergedOwners
        /\ mergedOwners = l => applyCalls = <<>>
        /\ (~IsRemoval(applyRequired) /\ ~Names(l, applyRequired))
            => /\ Len(applyCalls) = 1
               /\ applyCalls[1].body.owners = Append(l, applyRequired)
        /\ (IsRemoval(applyRequired) /\ Names(l, applyRequired))
            => /\ Len(applyCalls) = 1
               /\ applyCalls[1].body.owners = Without(l, applyRequired)
        /\ (~IsRemoval(applyRequired) /\ \E k \in 1..Len(l) : l[k] = applyRequired)
            => applyCalls = <<>>
        /\ (IsRemoval(applyRequired) /\ ~Names(l, applyRequired))
            => applyCalls = <<>>

\* "remove a owner" of TestApplyOwnerReferences
C36_Witness ==
    /\ ApplyReturned
    /\ applyExisting.owners = <<ownerB, owner>>
    /\ applyRequired = ownerCopy
    /\ Len(applyCalls) = 1
    /\ applyCalls[1].body.owners = <<ownerB>>
    /\ applyCalls[1].answer = "ok"
    /\ applyLive.owners = <<ownerB>>

\* ------------------------------------------- reading the work client calls
StatusReturned == spc = "returned"
StatusCallIdx(op) == {k \in 1..Len(statusCalls) : statusCalls[k].op = op}
AcceptedWrites == {k \in StatusCallIdx("UpdateStatus") : statusCalls[k].answer = "ok"}
\* the status the functions make of a status, when none of them fails
Applied(status) == ApplyUpdateFuncs(updateFuncs, status, 1)
\* the update function f returns an error when it is given the status
Fails(f, status) ==
    \/ f.kind = "fail"
    \/ f.kind = "failOn" /\ HasType(status, f.type)
\* a function of funcs, from the i-th on, fails on the status the functions
\* before it made
RECURSIVE SomeFuncFails(_, _, _)
SomeFuncFails(funcs, status, i) ==
    IF i > Len(funcs) THEN FALSE
    ELSE \/ Fails(funcs[i], status)
         \/ SomeFuncFails(funcs,
                IF funcs[i].kind = "set"
                THEN SetStatusCondition(status, funcs[i].cond) ELSE status,
                i + 1)
\* a step that is the first attempt of the call
FirstAttempt == attempt = 0 /\ attempt' = 1

\* ------------------------------------------------------------------ C31
\* C31: when the update functions applied in order to the status of the
\* passed object give a status equal to it, the first attempt returns that
\* status with updated = false and no error, no call is made on the work
\* client (no UpdateStatus, no Get), and the persisted object is as it was.
C31_UnchangedStatusNoWrite ==
    [][(/\ FirstAttempt
        /\ Applied(manifestWork.status).err = "nil"
        /\ Applied(manifestWork.status).status = manifestWork.status)
       => /\ spc' = "returned"
          /\ statusRet' = [status |-> StatusPtr(manifestWork.status),
                           updated |-> FALSE, err |-> "nil"]
          /\ statusCalls' = <<>>
          /\ store' = store
          /\ manifestWork' = manifestWork]_vars

\* "leave existing transition time" of TestUpdateStatusCondition
C31_Witness ==
    /\ StatusReturned
    /\ attempt = 1
    /\ updateFuncs = <<updateSpokeClusterConditionFn(Condition("one", "True", "old", 2))>>
    /\ manifestWork.status = <<Condition("one", "True", "old", 1)>>
    /\ statusRet = [status |-> StatusPtr(manifestWork.status),
                    updated |-> FALSE, err |-> "nil"]
    /\ statusCalls = <<>>
    /\ store.status = manifestWork.status

\* ------------------------------------------------------------------ C32
\* C32: a write of an object of another resourceVersion than the persisted
\* one is answered with a Conflict; a write that follows a failed attempt is
\* made right after a Get and carries the resourceVersion fetched and the
\* functions applied to the status fetched, and the retry returns without a
\* write only when they leave the status fetched as it is; a Conflict ends
\* the call only when the runs are used up; and every accepted write is the
\* functions applied to the status persisted when it was accepted.
C32_WritesAgainstFetchedVersion ==
    /\ \A k \in StatusCallIdx("UpdateStatus") :
        LET c == statusCalls[k] IN
        /\ c.work.rv # c.persisted.rv => c.answer = "conflict"
        /\ c.answer = "ok"
            => /\ c.work.rv = c.persisted.rv
               /\ Applied(c.persisted.status).err = "nil"
               /\ c.work.status = Applied(c.persisted.status).status
        /\ k > 1
            => /\ statusCalls[k - 1].op = "Get"
               /\ statusCalls[k - 1].answer = "ok"
               /\ c.work.rv = statusCalls[k - 1].work.rv
               /\ c.work.status = Applied(statusCalls[k - 1].work.status).status
        /\ (c.answer = "conflict" /\ k < Len(statusCalls))
            => statusCalls[k + 1].op = "Get"
        /\ (c.answer = "conflict" /\ k = Len(statusCalls))
            => \/ spc = "get"
               \/ spc = "returned" /\ attempt = Steps + 1
    /\ \A k \in StatusCallIdx("Get") :
        statusCalls[k].answer = "ok" => statusCalls[k].work = statusCalls[k].persisted
    /\ (StatusReturned /\ statusCalls # <<>> /\ statusRet.err = "nil"
            /\ ~statusRet.updated)
        => LET c == statusCalls[Len(statusCalls)] IN
           /\ c.op = "Get" /\ c.answer = "ok"
           /\ Applied(c.work.status).status = c.work.status
           /\ statusRet.status = StatusPtr(c.work.status)

\* another writer added its condition before the first write: the write is
\* a Conflict, and the write after the Get keeps that condition
C32_Witness ==
    /\ StatusReturned
    /\ updateFuncs = <<updateSpokeClusterConditionFn(Condition("one", "False", "new", 0))>>
    /\ Len(statusCalls) = 3
    /\ statusCalls[1].op = "UpdateStatus" /\ statusCalls[1].answer = "conflict"
    /\ statusCalls[2].op = "Get" /\ statusCalls[2].answer = "ok"
    /\ statusCalls[3].op = "UpdateStatus" /\ statusCalls[3].answer = "ok"
    /\ store.status = <<Condition("two", "True", "other", 1),
                        Condition("one", "False", "new", Now)>>
    /\ statusRet.updated

\* ------------------------------------------------------------------ C33
\* at most Steps + 1 attempts, each with at most one write, and a Get before
\* each attempt but the first
BoundedAttempts ==
    /\ attempt <= Steps + 1
    /\ Cardinality(StatusCallIdx("UpdateStatus")) <= attempt
    /\ Cardinality(StatusCallIdx("Get")) <= Steps
\* every attempt made a write and every write was answered with a Conflict
AllConflicts ==
    /\ Cardinality(StatusCallIdx("UpdateStatus")) = attempt
    /\ \A k \in StatusCallIdx("UpdateStatus") : statusCalls[k].answer = "conflict"
    /\ \A k \in StatusCallIdx("Get") : statusCalls[k].answer = "ok"

\* C33: every call returns; it makes at most Steps + 1 attempts, and a call
\* whose writes were all answered with a Conflict returns after Steps + 1 of
\* them with that Conflict, updated = false and a nil status.
C33_BoundedRetriesThenConflict ==
    /\ []BoundedAttempts
    /\ [](StatusReturned /\ AllConflicts
            => /\ attempt = Steps + 1
               /\ statusRet = [status |-> NilStatus, updated |-> FALSE,
                               err |-> "conflict"])
    /\ <>StatusReturned

C33_Witness ==
    /\ StatusReturned
    /\ AllConflicts
    /\ attempt = Steps + 1
    /\ Cardinality(StatusCallIdx("UpdateStatus")) = Steps + 1
    /\ statusRet.err = "conflict"
    /\ ~statusRet.updated

\* ------------------------------------------------------------------ C38
\* the object an attempt that starts in this state works on
WorkNow == IF attempt = 0 THEN manifestWork ELSE fetchedWork

\* C38: an attempt in which an update function fails makes no call and
\* leaves the persisted object alone; the first attempt is followed by the
\* Get of the retry, and a later one returns the error of the function with
\* updated = false and a nil status.
C38_FunctionErrorNoWrite ==
    [][(/\ spc = "update"
        /\ attempt' = attempt + 1
        /\ SomeFuncFails(updateFuncs, WorkNow.status, 1))
       => /\ statusCalls' = statusCalls
          /\ store' = store
          /\ statusRet' = [status |-> NilStatus, updated |-> FALSE,
                           err |-> "funcError"]
          /\ spc' = IF attempt = 0 THEN "get" ELSE "returned"]_vars

\* the first function fails on the passed object and on the fetched one
C38_Witness ==
    /\ StatusReturned
    /\ updateFuncs = <<FailingFn,
                       updateSpokeClusterConditionFn(Condition("one", "False", "new", 0))>>
    /\ attempt = 2
    /\ Len(statusCalls) = 1
    /\ statusCalls[1].op = "Get" /\ statusCalls[1].answer = "ok"
    /\ statusRet = [status |-> NilStatus, updated |-> FALSE, err |-> "funcError"]
    /\ store.status = manifestWork.status

\* ------------------------------------------------------------------ C39
\* C39: at most one write of a call is accepted; the call returns with the
\* accepted write, updated is true exactly when there is one, and the status
\* returned is then the status of the object that write persisted.
C39_OneAcceptedWriteIffUpdated ==
    /\ Cardinality(AcceptedWrites) <= 1
    /\ AcceptedWrites # {} => StatusReturned
    /\ StatusReturned =>
        /\ statusRet.updated <=> AcceptedWrites # {}
        /\ statusRet.updated
            => /\ statusRet.err = "nil"
               /\ \A k \in AcceptedWrites :
                    /\ k = Len(statusCalls)
                    /\ statusRet.status = StatusPtr(statusCalls[k].work.status)

\* the first write fails with another error, the write of the retry is
\* accepted
C39_Witness ==
    /\ StatusReturned
    /\ Len(statusCalls) = 3
    /\ statusCalls[1].op = "UpdateStatus" /\ statusCalls[1].answer = "error"
    /\ statusCalls[2].op = "Get" /\ statusCalls[2].answer = "ok"
    /\ statusCalls[3].op = "UpdateStatus" /\ statusCalls[3].answer = "ok"
    /\ AcceptedWrites = {3}
    /\ statusRet.updated
    /\ statusRet.status = StatusPtr(store.status)

\* ------------------------------------------------------------------ C40
\* the conditions have no condition of the type with status True
NotTrue(conds, type) ==
    \A k \in 1..Len(conds) : conds[k].Type = type => conds[k].Status # "True"
\* what the events handled enqueued, in order
RECURSIVE EnqueuedUpTo(_)
EnqueuedUpTo(k) == IF k = 0 THEN <<>> ELSE EnqueuedUpTo(k - 1) \o handled[k].enqueued

\* C40: an add event of a work enqueues its name once; an update event of a
\* work enqueues the name of the new object once when its Available or its
\* Applied condition is not True or when its manifests differ from those of
\* the old object, and enqueues nothing otherwise; a delete event enqueues
\* nothing; and nothing else reaches the queue.
C40_EnqueueOncePerRelevantEvent ==
    /\ queue = EnqueuedUpTo(Len(handled))
    /\ \A k \in 1..Len(handled) :
        LET e == handled[k] IN
        /\ (e.kind = "add" /\ e.new.isWork) => e.enqueued = <<e.new.Name>>
        /\ (e.kind = "update" /\ e.new.isWork /\ e.old.isWork)
            => IF \/ NotTrue(e.new.Conditions, WorkAvailable)
                  \/ NotTrue(e.new.Conditions, WorkApplied)
                  \/ e.new.Spec.items # e.old.Spec.items
               THEN e.enqueued = <<e.new.Name>>
               ELSE e.enqueued = <<>>
        /\ e.kind = "delete" => e.enqueued = <<>>

\* a status-only update of a work that is applied and available
C40_Witness ==
    /\ Len(handled) = 1
    /\ handled[1].kind = "update"
    /\ handled[1].old.isWork /\ handled[1].new.isWork
    /\ handled[1].old.Spec = handled[1].new.Spec
    /\ handled[1].new.Spec = Manifests(<<"cm1", "cm2">>)
    /\ handled[1].old.Conditions # handled[1].new.Conditions
    /\ IsConditionTrue(handled[1].new.Conditions, WorkApplied)
    /\ IsConditionTrue(handled[1].new.Conditions, WorkAvailable)
    /\ queue = <<>>

\* ------------------------------------------------------------------ C34
\* a review of the manifest was answered with a denial
DeniedManifest(e) ==
    \E k \in 1..Len(e.reviews) : e.reviews[k].answer = "denied"
\* the review of every verb of Apply was answered allowed
PermittedManifest(e) ==
    \A v \in 1..Len(VerbSet("Apply")) :
        \E k \in 1..Len(e.reviews) :
            /\ e.reviews[k].verb = VerbSet("Apply")[v]
            /\ e.reviews[k].answer = "allowed"

====
